---------------------------- MODULE Spec2Model ----------------------------
(***************************************************************************)
(* Outline compression engine of better-playwright-mcp.                    *)
(*                                                                         *)
(* SmartOutlineSimple.generate splits the snapshot text into lines, builds *)
(* a forest from the indentation (buildTree), removes useless "generic"    *)
(* wrappers (UselessWrapperRemover), detects lists among siblings          *)
(* (ListDetector over DOMSimHash) and renders the folded outline.          *)
(*                                                                         *)
(* Representation.  The snapshot text is the sequence of the segments that *)
(* snapshot.split('\n') returns: a text always has at least one segment,   *)
(* the empty text has exactly one, the empty segment.  A segment is a      *)
(* record of the fields the parser's regular expressions read.  A          *)
(* reference id is a natural number, 0 standing for the empty string (no   *)
(* id); an inline text is a sequence of characters.  A tree node is a      *)
(* record whose children field is a sequence of nodes.                     *)
(***************************************************************************)
EXTENDS Integers, Sequences, FiniteSets, TLC

VARIABLES
    snapshot,       \* the segments of the input text (snapshot.split('\n'))
    pc,             \* position in generate: "input", "built", "cleaned", "done"
    rootNodes,      \* the forest: result of buildTree, then of removeWrappers
    before,         \* the forest that the last removeWrappers call received
    cleanCalls,     \* number of removeWrappers calls made on the forest
    detected,       \* every ListPattern returned by detectLists, in call order
    outlineLines,   \* the rendered body lines
    header,         \* the numbers of the header line: [rendered, original]
    nodeA, nodeB,   \* the two nodes that areSimilar is called on
    sigA, sigB,     \* the two signatures that hammingDistance is called on
    similarity,     \* what the areSimilar calls returned
    distances,      \* what the hammingDistance calls returned
    hashCache,      \* DOMSimHash.hashCache of the generator instance
    calls,          \* number of generate calls that the instance has served
    returned,       \* the input and the result of each of these calls, in order
    request,        \* the options given to SmartOutlineGenerator.generate
    outcome,        \* what SmartOutlineGenerator.generate returned or threw
    building,       \* buildTree while it runs: the nodes made, rootNodes, stack
    nextLine,       \* buildTree while it runs: the line that the loop is at (i + 1)
    work,           \* removeWrappers while it runs on the roots: todo, node, done
    scan            \* findAllSimilarSequences while it runs: its locals, loop by loop

hashVars == <<nodeA, nodeB, sigA, sigB, similarity, distances>>

callVars == <<hashCache, calls, returned>>

budgetVars == <<request, outcome>>

buildVars == <<building, nextLine>>

stageVars == <<work, scan>>

others == <<hashVars, callVars, budgetVars, buildVars, stageVars>>

vars == <<snapshot, pc, rootNodes, before, cleanCalls, detected, outlineLines, header,
          others>>

(***************************************************************************)
(* Bounds of the model.                                                    *)
(***************************************************************************)
MaxLines == 5        \* lines of a text given to generate (Spec)
MaxWrapLines == 5    \* lines of a text whose forest is cleaned (SpecWrap)
MaxFlatLines == 7    \* siblings of a flat text (SpecFlat)
MaxListLines == 7    \* lines of a text of listitems (SpecList)
MaxTextLines == 3    \* lines of a text of nodes with inline text (SpecText)
MaxCalls == 3        \* generate calls on one generator instance (SpecCalls)
MaxBudgetLines == 4  \* lines of a text rendered within a budget (SpecBudget)
MaxParseLines == 5   \* lines of a text with blank and malformed lines (SpecLines)
MaxRefLines == 8     \* siblings with and without a reference id (SpecRefs)
MaxStageLines == 8   \* lines of a text whose loops are taken step by step (SpecStages)

(***************************************************************************)
(* Input lines.                                                            *)
(***************************************************************************)
NoRef == 0
NoText == << >>
SomeText == <<"t">>

\* The empty segment: what split returns for the empty text, for a blank
\* line and after a trailing newline.
BlankLine ==
    [indent |-> 0, dash |-> FALSE, type |-> "", content |-> NoText,
     ref |-> NoRef, pointer |-> FALSE, blank |-> TRUE]

\* A line "<indent spaces>- <type> <content> [ref=<ref>]".
ElemLine(indent, type, content, ref) ==
    [indent |-> indent, dash |-> TRUE, type |-> type, content |-> content,
     ref |-> ref, pointer |-> FALSE, blank |-> FALSE]

\* A non-blank line that does not start with "- <type>".
BadLine(indent) ==
    [indent |-> indent, dash |-> FALSE, type |-> "", content |-> SomeText,
     ref |-> NoRef, pointer |-> FALSE, blank |-> FALSE]

NoNode == [none |-> TRUE]

\* No call made yet.
NoResult == [none |-> TRUE]

parseLine(line, lineNumber) ==
    IF ~line.dash \/ line.type = ""
    THEN NoNode
    ELSE [indent |-> line.indent, type |-> line.type, ref |-> line.ref,
          content |-> line.content, children |-> << >>,
          lineNumber |-> lineNumber, hasInteraction |-> line.pointer]

(***************************************************************************)
(* buildTree: one pass over the lines with a stack of open ancestors.      *)
(* While it runs the nodes live in an arena (nodes[k] has the indices of   *)
(* its children); ToTree turns the arena into nested node values.          *)
(***************************************************************************)
RECURSIVE PopStack_KeepEqual(_, _, _)
\* A variant that pops only the nodes indented deeper than the new one: a
\* node of the same indentation stays on the stack and becomes the parent.
PopStack_KeepEqual(nodes, stack, indent) ==
    IF Len(stack) > 0 /\ nodes[stack[Len(stack)]].indent > indent
    THEN PopStack_KeepEqual(nodes, SubSeq(stack, 1, Len(stack) - 1), indent)
    ELSE stack

RECURSIVE PopStack(_, _, _)
PopStack(nodes, stack, indent) ==
    IF Len(stack) > 0 /\ nodes[stack[Len(stack)]].indent >= indent
    THEN PopStack(nodes, SubSeq(stack, 1, Len(stack) - 1), indent)
    ELSE stack

EmptyBuild == [nodes |-> << >>, kids |-> << >>, rootNodes |-> << >>, stack |-> << >>]

\* A variant that pops the stack for a line that parseLine rejects, before
\* the line is dropped.
BuildStep_PopForDropped(st, line, lineNumber) ==
    IF line.blank THEN st
    ELSE LET node == parseLine(line, lineNumber) IN
         IF node = NoNode
         THEN [st EXCEPT !.stack = PopStack(st.nodes, st.stack, line.indent)]
         ELSE LET stack == PopStack(st.nodes, st.stack, node.indent)
                  k == Len(st.nodes) + 1
                  kids0 == Append(st.kids, << >>)
              IN [nodes |-> Append(st.nodes, node),
                  kids |-> IF Len(stack) > 0
                           THEN [kids0 EXCEPT ![stack[Len(stack)]] = Append(@, k)]
                           ELSE kids0,
                  rootNodes |-> IF Len(stack) > 0 THEN st.rootNodes
                                ELSE Append(st.rootNodes, k),
                  stack |-> Append(stack, k)]

\* A variant that puts the new node in front of its parent's children.
BuildStep_Prepend(st, line, lineNumber) ==
    IF line.blank THEN st
    ELSE LET node == parseLine(line, lineNumber) IN
         IF node = NoNode THEN st
         ELSE LET stack == PopStack(st.nodes, st.stack, node.indent)
                  k == Len(st.nodes) + 1
                  kids0 == Append(st.kids, << >>)
              IN [nodes |-> Append(st.nodes, node),
                  kids |-> IF Len(stack) > 0
                           THEN [kids0 EXCEPT ![stack[Len(stack)]] = <<k>> \o @]
                           ELSE kids0,
                  rootNodes |-> IF Len(stack) > 0 THEN st.rootNodes
                                ELSE Append(st.rootNodes, k),
                  stack |-> Append(stack, k)]

\* One iteration of the loop of buildTree, on line i (0-based lineNumber i-1).
BuildStep(st, line, lineNumber) ==
    IF line.blank THEN st
    ELSE LET node == parseLine(line, lineNumber) IN
         IF node = NoNode THEN st
         ELSE LET stack == PopStack(st.nodes, st.stack, node.indent)
                  k == Len(st.nodes) + 1
                  kids0 == Append(st.kids, << >>)
              IN [nodes |-> Append(st.nodes, node),
                  kids |-> IF Len(stack) > 0
                           THEN [kids0 EXCEPT ![stack[Len(stack)]] = Append(@, k)]
                           ELSE kids0,
                  rootNodes |-> IF Len(stack) > 0 THEN st.rootNodes
                                ELSE Append(st.rootNodes, k),
                  stack |-> Append(stack, k)]

RECURSIVE BuildLoop(_, _, _)
BuildLoop(st, lines, i) ==
    IF i > Len(lines) THEN st
    ELSE BuildLoop(BuildStep(st, lines[i], i - 1), lines, i + 1)

RECURSIVE ToTree(_, _)
RECURSIVE ToForest(_, _)
ToTree(st, k) == [st.nodes[k] EXCEPT !.children = ToForest(st, st.kids[k])]
ToForest(st, ks) ==
    IF ks = << >> THEN << >>
    ELSE <<ToTree(st, ks[1])>> \o ToForest(st, Tail(ks))

buildTree(lines) ==
    LET st == BuildLoop(EmptyBuild, lines, 1) IN ToForest(st, st.rootNodes)

(***************************************************************************)
(* UselessWrapperRemover.                                                  *)
(***************************************************************************)
\* A variant that does not look at the inline text: a childless generic is
\* judged empty also when it has text.
isEmptyGeneric_IgnoreText(node) ==
    /\ node.type = "generic"
    /\ Len(node.children) = 0

isEmptyGeneric(node) ==
    /\ node.type = "generic"
    /\ Len(node.children) = 0
    /\ node.content = NoText

RECURSIVE removeEmptyGenerics_JudgeFirst(_)
\* A variant that judges a node before its children are cleaned: a generic
\* whose children are all empty generics is kept, with no child left.
removeEmptyGenerics_JudgeFirst(nodes) ==
    IF nodes = << >> THEN << >>
    ELSE LET node == nodes[1]
             node1 == IF Len(node.children) > 0
                      THEN [node EXCEPT !.children =
                                removeEmptyGenerics_JudgeFirst(node.children)]
                      ELSE node
             rest == removeEmptyGenerics_JudgeFirst(Tail(nodes))
         IN IF isEmptyGeneric(node) THEN rest ELSE <<node1>> \o rest

RECURSIVE removeEmptyGenerics(_)
removeEmptyGenerics(nodes) ==
    IF nodes = << >> THEN << >>
    ELSE LET node == nodes[1]
             node1 == IF Len(node.children) > 0
                      THEN [node EXCEPT !.children = removeEmptyGenerics(node.children)]
                      ELSE node
             rest == removeEmptyGenerics(Tail(nodes))
         IN IF isEmptyGeneric(node1) THEN rest ELSE <<node1>> \o rest

isUselessWrapper(node) ==
    /\ node.type = "generic"
    /\ Len(node.children) = 1

\* A variant that passes the parent's inline text on and leaves the child at
\* its own indentation.
mergeAttributes_KeepIndent(parent, child) ==
    [child EXCEPT !.content = IF parent.content # NoText /\ child.content = NoText
                              THEN parent.content ELSE @]

\* The child after mergeAttributes(parent, child).
mergeAttributes(parent, child) ==
    [child EXCEPT !.indent = parent.indent,
                  !.content = IF parent.content # NoText /\ child.content = NoText
                              THEN parent.content ELSE @]

RECURSIVE removeWrappers(_)
RECURSIVE processNode(_)
RECURSIVE processAll(_)
RECURSIVE collapse(_)

\* The while loop of processNode: node's children are already processed.
collapse(node) ==
    IF isUselessWrapper(node)
    THEN LET onlyChild == mergeAttributes(node, node.children[1])
             next == IF Len(onlyChild.children) > 0
                     THEN [onlyChild EXCEPT !.children = removeWrappers(onlyChild.children)]
                     ELSE onlyChild
         IN collapse(next)
    ELSE node

\* A variant that processes the children and never unwraps the node itself.
processNode_ChildrenOnly(node) ==
    IF Len(node.children) > 0
    THEN [node EXCEPT !.children = removeWrappers(node.children)]
    ELSE node

processNode(node) ==
    collapse(IF Len(node.children) > 0
             THEN [node EXCEPT !.children = removeWrappers(node.children)]
             ELSE node)

processAll(nodes) ==
    IF nodes = << >> THEN << >>
    ELSE <<processNode(nodes[1])>> \o processAll(Tail(nodes))

removeWrappers(nodes) == processAll(removeEmptyGenerics(nodes))

(***************************************************************************)
(* DOMSimHash.  A feature string is the sequence of its character codes.   *)
(* A 32-bit unsigned value is kept as its two 16-bit halves, a SimHash as  *)
(* the set of the positions (0..31) of its 1 bits.                         *)
(***************************************************************************)
HASH_BITS == 32

\* The character codes of the node types of the model.
TypeChars ==
    [ generic |-> <<103, 101, 110, 101, 114, 105, 99>>,
      listitem |-> <<108, 105, 115, 116, 105, 116, 101, 109>>,
      button |-> <<98, 117, 116, 116, 111, 110>>,
      heading |-> <<104, 101, 97, 100, 105, 110, 103>>,
      link |-> <<108, 105, 110, 107>>,
      text |-> <<116, 101, 120, 116>>,
      img |-> <<105, 109, 103>>,
      checkbox |-> <<99, 104, 101, 99, 107, 98, 111, 120>>,
      radio |-> <<114, 97, 100, 105, 111>>,
      list |-> <<108, 105, 115, 116>> ]

Chars(type) == TypeChars[type]

ChGt == 62       \* '>'
ChPlus == 43     \* '+'
ChMinus == 45    \* '-'
ChW == 119       \* 'w'
ChD == 100       \* 'd'
ChZero == 48     \* '0'
StrEmpty == <<101, 109, 112, 116, 121>>
StrInteractive == <<105, 110, 116, 101, 114, 97, 99, 116, 105, 118, 101>>

RECURSIVE Digits(_)
\* The decimal digits of a natural number.
Digits(n) == IF n < 10 THEN <<ChZero + n>> ELSE Digits(n \div 10) \o <<ChZero + (n % 10)>>

RECURSIVE Join(_, _)
\* parts.join(sep) for a sequence of strings.
Join(parts, sep) ==
    IF parts = << >> THEN << >>
    ELSE IF Len(parts) = 1 THEN parts[1]
    ELSE parts[1] \o <<sep>> \o Join(Tail(parts), sep)

\* nodes.slice(0, k).
Slice(seq, k) == SubSeq(seq, 1, IF Len(seq) < k THEN Len(seq) ELSE k)

TypesOf(nodes) == [i \in 1..Len(nodes) |-> Chars(nodes[i].type)]

getSkeletonSignature(node) ==
    LET childTypes == Join(TypesOf(Slice(node.children, 5)), ChPlus)
        withChildren == IF childTypes # << >>
                        THEN Chars(node.type) \o <<ChGt>> \o childTypes
                        ELSE Chars(node.type)
    IN IF Len(node.children) > 0 /\ Len(node.children[1].children) > 0
       THEN withChildren \o <<ChGt>>
                \o Join(TypesOf(Slice(node.children[1].children, 3)), ChPlus)
       ELSE withChildren

getShapeSignature(node) ==
    LET m == IF Len(node.children) < 3 THEN Len(node.children) ELSE 3
        widths == <<Digits(Len(node.children))>>
                    \o [i \in 1..m |-> Digits(Len(node.children[i].children))]
    IN <<ChW>> \o Join(widths, ChMinus)

RECURSIVE CountType(_, _, _)
\* The number of nodes of the given type among the nodes and their
\* descendants, down to depth 2 (the function count of getTypeCountSignature).
CountType(nodes, type, depth) ==
    IF depth > 2 \/ nodes = << >> THEN 0
    ELSE (IF nodes[1].type = type THEN 1 ELSE 0)
         + CountType(nodes[1].children, type, depth + 1)
         + CountType(Tail(nodes), type, depth)

important == <<"button", "link", "text", "img", "heading", "checkbox", "radio">>

RECURSIVE CountSig(_, _)
CountSig(node, i) ==
    IF i > Len(important) THEN << >>
    ELSE LET c == CountType(<<node>>, important[i], 0)
         IN (IF c > 0 THEN <<Chars(important[i])[1]>> \o Digits(c) ELSE << >>)
            \o CountSig(node, i + 1)

getTypeCountSignature(node) ==
    LET sig == CountSig(node, 1) IN IF sig # << >> THEN sig ELSE StrEmpty

RECURSIVE CheckInteractive(_, _)
\* The function check of hasInteractiveElements, on a sibling sequence.
CheckInteractive(nodes, depth) ==
    IF depth > 2 \/ nodes = << >> THEN FALSE
    ELSE \/ nodes[1].type \in {"button", "link", "checkbox", "radio"}
         \/ CheckInteractive(nodes[1].children, depth + 1)
         \/ CheckInteractive(Tail(nodes), depth)

hasInteractiveElements(node) ==
    node.hasInteraction \/ CheckInteractive(<<node>>, 0)

RECURSIVE getMaxDepth(_)
RECURSIVE MaxChildDepth(_)
MaxChildDepth(nodes) ==
    IF nodes = << >> THEN 0
    ELSE LET a == getMaxDepth(nodes[1])
             b == MaxChildDepth(Tail(nodes))
         IN IF a > b THEN a ELSE b
getMaxDepth(node) ==
    IF Len(node.children) = 0 THEN 0 ELSE 1 + MaxChildDepth(node.children)

extractFeatures(node) ==
    <<getSkeletonSignature(node), getShapeSignature(node), getTypeCountSignature(node)>>
    \o (IF hasInteractiveElements(node) THEN <<StrInteractive>> ELSE << >>)
    \o << <<ChD>> \o Digits(getMaxDepth(node)) >>

RECURSIVE djb2From(_, _, _)
\* hash * 33 + c modulo 2^32, over the characters from position i on.  The
\* test on the new halves only makes their evaluation happen at each step.
djb2From(h, str, i) ==
    IF i > Len(str) THEN h
    ELSE LET lo == (h.lo * 33 + str[i]) % 65536
             hi == (h.hi * 33 + ((h.lo * 33 + str[i]) \div 65536)) % 65536
         IN IF lo + hi >= 0
            THEN djb2From([hi |-> hi, lo |-> lo], str, i + 1)
            ELSE h

\* 5381 = 0x1505.
djb2Hash(str) == djb2From([hi |-> 0, lo |-> 5381], str, 1)

\* (hash >> i) & 1.
Bit(h, i) ==
    IF i < 16 THEN (h.lo \div (2 ^ i)) % 2 ELSE (h.hi \div (2 ^ (i - 16))) % 2

Contains(str, c) == \E i \in 1..Len(str) : str[i] = c

getWeight(feature) ==
    IF Contains(feature, ChGt) THEN 5
    ELSE IF feature[1] = ChW THEN 3
    ELSE IF feature[1] = ChD THEN 2
    ELSE 1

RECURSIVE Vote(_, _, _, _)
\* vector[i] after the features from position k on have voted.
Vote(hashes, weights, i, k) ==
    IF k > Len(hashes) THEN 0
    ELSE (IF Bit(hashes[k], i) = 1 THEN weights[k] ELSE 0 - weights[k])
         + Vote(hashes, weights, i, k + 1)

RECURSIVE HashAll(_, _)
HashAll(features, k) ==
    IF k > Len(features) THEN << >>
    ELSE <<djb2Hash(features[k])>> \o HashAll(features, k + 1)

RECURSIVE WeightAll(_, _)
WeightAll(features, k) ==
    IF k > Len(features) THEN << >>
    ELSE <<getWeight(features[k])>> \o WeightAll(features, k + 1)

RECURSIVE SumBits(_)
\* The sum of 2^i over the given bit positions.
SumBits(bits) ==
    IF bits = {} THEN 0
    ELSE LET i == CHOOSE x \in bits : TRUE IN 2 ^ i + SumBits(bits \ {i})

\* computeHash when the node is not in the cache.
SimHashOf(node) ==
    LET features == extractFeatures(node)
        hashes == HashAll(features, 1)
        weights == WeightAll(features, 1)
    IN {i \in 0..(HASH_BITS - 1) : Vote(hashes, weights, i, 1) > 0}

\* A variant in which the objects of every second call are the same objects
\* again.
identity_Recycled(node) == <<(calls + 1) % 2, node.lineNumber>>

\* The key of a node in hashCache is the node object itself: the object
\* that buildTree made, in the call being served, for the node's line.
identity(node) == <<calls + 1, node.lineNumber>>

computeHash(node) ==
    IF identity(node) \in DOMAIN hashCache
    THEN hashCache[identity(node)]
    ELSE SimHashOf(node)

\* The number that the bit operators of the source see: the signed 32-bit
\* value whose 1 bits are the given positions (bit 31 is the sign).
ToInt32(bits) ==
    LET low == SumBits(bits \ {HASH_BITS - 1})
    IN IF (HASH_BITS - 1) \in bits THEN (low - 2147483647) - 1 ELSE low

\* xor >>> 1: the zero-fill right shift of a signed 32-bit value.
ZeroFillShift(xor) ==
    IF xor >= 0 THEN xor \div 2 ELSE 2147483647 + (1 + (xor \div 2))

RECURSIVE CountOnes(_, _)
\* The while loop of hammingDistance.
CountOnes(xor, count) ==
    IF xor = 0 THEN count ELSE CountOnes(ZeroFillShift(xor), count + (xor % 2))

\* A variant that counts the bits of the first signature that the second
\* one lacks.
hammingDistance_OneSided(hash1, hash2) == Cardinality(hash1 \ hash2)

\* h1 ^ h2 has a 1 bit where exactly one of the signatures has one.
hammingDistance(hash1, hash2) ==
    CountOnes(ToInt32((hash1 \ hash2) \cup (hash2 \ hash1)), 0)

SIMILARITY_THRESHOLD == 3

areSimilar(node1, node2) ==
    hammingDistance(computeHash(node1), computeHash(node2)) <= SIMILARITY_THRESHOLD

(***************************************************************************)
(* DOMSimHash.findSimilarSequence and findAllSimilarSequences.  Positions  *)
(* in a sequence count from 1 here (from 0 in the source).                 *)
(***************************************************************************)
RECURSIVE HashNodes(_)
\* computeHash of every node of a sibling sequence.
HashNodes(nodes) ==
    IF nodes = << >> THEN << >>
    ELSE <<computeHash(nodes[1])>> \o HashNodes(Tail(nodes))

NoSeq == [none |-> TRUE]

RECURSIVE Extend(_, _, _, _, _)
\* The inner while loop: base at position i, next candidate at position j.
Extend(hs, i, j, similarCount, best) ==
    IF j > Len(hs) THEN best
    ELSE IF hammingDistance(hs[i], hs[j]) <= 3
         THEN LET count == similarCount + 1
                  best1 == IF count >= 3 /\ count > best.maxLen
                           THEN [maxLen |-> count, bestStart |-> i, bestEnd |-> j]
                           ELSE best
              IN Extend(hs, i, j + 1, count, best1)
         ELSE IF similarCount >= 3 THEN best
         ELSE Extend(hs, i, j + 1, similarCount, best)

RECURSIVE Windows_StopEarly(_, _, _)
\* A variant whose last window starts at nodes.length - 4 (0-based): the
\* last three nodes are never a window of their own.
Windows_StopEarly(hs, i, best) ==
    IF i > Len(hs) - 3 THEN best
    ELSE Windows_StopEarly(hs, i + 1, Extend(hs, i, i + 1, 1, best))

RECURSIVE Windows(_, _, _)
\* The outer for loop: window starts i, i+1, ..., nodes.length - 3 (0-based).
Windows(hs, i, best) ==
    IF i > Len(hs) - 2 THEN best
    ELSE Windows(hs, i + 1, Extend(hs, i, i + 1, 1, best))

\* if (maxLen >= 3) return {start, end, samples}; return null.
BestSequence(nodes, best) ==
    IF best.maxLen >= 3
    THEN [start |-> best.bestStart, end |-> best.bestEnd,
          samples |-> SubSeq(nodes, best.bestStart, best.bestEnd)]
    ELSE NoSeq

findSimilarSequence(nodes) ==
    IF Len(nodes) < 3 THEN NoSeq
    ELSE BestSequence(nodes, Windows(HashNodes(nodes), 1,
                                     [maxLen |-> 0, bestStart |-> 1, bestEnd |-> 1]))

\* A variant in which a round starts again from every sibling.
Unprocessed_EverySibling(n, processed, i) == [k \in 1..(n - i + 1) |-> k + i - 1]

RECURSIVE Unprocessed(_, _, _)
\* indexMap: the positions from i on that are not in processed, in order.
Unprocessed(n, processed, i) ==
    IF i > n THEN << >>
    ELSE (IF i \in processed THEN << >> ELSE <<i>>) \o Unprocessed(n, processed, i + 1)

RECURSIVE SeqRounds(_, _, _)
RECURSIVE SeqRound(_, _, _, _)
RECURSIVE SeqFound(_, _, _, _, _)

\* The while loop of findAllSimilarSequences.
SeqRounds(nodes, processed, sequences) ==
    IF Cardinality(processed) >= Len(nodes) THEN sequences
    ELSE SeqRound(nodes, processed, sequences, Unprocessed(Len(nodes), processed, 1))

\* One round, with the positions not yet processed: break when fewer than
\* three are left, else findSimilarSequence on the nodes at these positions.
SeqRound(nodes, processed, sequences, indexMap) ==
    IF Len(indexMap) < 3 THEN sequences
    ELSE SeqFound(nodes, processed, sequences, indexMap,
                  findSimilarSequence([k \in 1..Len(indexMap) |-> nodes[indexMap[k]]]))

\* if (seq): push the sequence with its positions mapped back, mark its
\* positions processed, and go round again; else break.
SeqFound(nodes, processed, sequences, indexMap, seq) ==
    IF seq # NoSeq
    THEN SeqRounds(nodes,
                   processed \cup {indexMap[k] : k \in seq.start..seq.end},
                   Append(sequences,
                          [start |-> indexMap[seq.start],
                           end |-> indexMap[seq.end],
                           count |-> seq.end - seq.start + 1,
                           sample |-> nodes[indexMap[seq.start]]]))
    ELSE sequences

findAllSimilarSequences(nodes) == SeqRounds(nodes, {}, << >>)

(***************************************************************************)
(* ListDetector.                                                           *)
(***************************************************************************)
RECURSIVE TruthyRefs(_)
\* items.map(n => n.ref).filter(r => r)
TruthyRefs(items) ==
    IF items = << >> THEN << >>
    ELSE (IF items[1].ref # NoRef THEN <<items[1].ref>> ELSE << >>)
         \o TruthyRefs(Tail(items))

\* if (!seq) return null; return {start, end, count, sample, items}.
SimilarOf(nodes, seq) ==
    IF seq = NoSeq THEN NoSeq
    ELSE [start |-> seq.start, end |-> seq.end,
          count |-> seq.end - seq.start + 1,
          sample |-> nodes[seq.start], items |-> seq.samples]

findStructurallySimilar(nodes) == SimilarOf(nodes, findSimilarSequence(nodes))

\* The pattern pushed for a finished run of listitems that starts at startIdx;
\* fallback says whether the run is pushed whole when no similar sub-run
\* exists (the else branch inside the loop, absent after the loop).
SemanticPattern(currentList, startIdx, fallback, similar) ==
    IF similar # NoSeq
    THEN << [type |-> "semantic",
             start |-> startIdx + similar.start - 1,
             end |-> startIdx + similar.end - 1,
             count |-> similar.count,
             sample |-> similar.sample,
             items |-> similar.items,
             refs |-> TruthyRefs(similar.items)] >>
    ELSE IF fallback
    THEN << [type |-> "semantic",
             start |-> startIdx,
             end |-> startIdx + Len(currentList) - 1,
             count |-> Len(currentList),
             sample |-> currentList[1],
             items |-> currentList,
             refs |-> TruthyRefs(currentList)] >>
    ELSE << >>

\* if (currentList.length >= 3), at the end of a run.
SemanticPatterns(currentList, startIdx, fallback) ==
    IF Len(currentList) < 3 THEN << >>
    ELSE SemanticPattern(currentList, startIdx, fallback,
                         findStructurallySimilar(currentList))

RECURSIVE SemanticLoop(_, _, _, _, _)
SemanticLoop(nodes, i, currentList, startIdx, lists) ==
    IF i > Len(nodes)
    THEN lists \o SemanticPatterns(currentList, startIdx, FALSE)
    ELSE IF nodes[i].type = "listitem"
         THEN SemanticLoop(nodes, i + 1, Append(currentList, nodes[i]),
                           IF Len(currentList) = 0 THEN i ELSE startIdx, lists)
         ELSE SemanticLoop(nodes, i + 1, << >>, 0,
                           lists \o SemanticPatterns(currentList, startIdx, TRUE))

detectSemanticLists(nodes) == SemanticLoop(nodes, 1, << >>, 0, << >>)

RECURSIVE CoveredBy(_)
\* The positions start..end of every list.
CoveredBy(lists) ==
    IF lists = << >> THEN {}
    ELSE (lists[1].start .. lists[1].end) \cup CoveredBy(Tail(lists))

RECURSIVE IndentOrder(_, _, _, _)
\* The keys of indentGroups in insertion order.
IndentOrder(nodes, processed, i, seen) ==
    IF i > Len(nodes) THEN << >>
    ELSE IF i \in processed \/ nodes[i].indent \in seen
         THEN IndentOrder(nodes, processed, i + 1, seen)
         ELSE <<nodes[i].indent>>
              \o IndentOrder(nodes, processed, i + 1, seen \cup {nodes[i].indent})

RECURSIVE IndentGroup(_, _, _, _)
\* indentGroups.get(indent): the unprocessed nodes of that indent, with
\* their positions.
IndentGroup(nodes, processed, indent, i) ==
    IF i > Len(nodes) THEN << >>
    ELSE (IF i \notin processed /\ nodes[i].indent = indent
          THEN << [node |-> nodes[i], index |-> i] >> ELSE << >>)
         \o IndentGroup(nodes, processed, indent, i + 1)

RECURSIVE GroupPatterns(_, _)
\* The patterns pushed for the sequences found in one indentation group.
GroupPatterns(group, sequences) ==
    IF sequences = << >> THEN << >>
    ELSE LET seq == sequences[1]
             items == [k \in 1..(seq.end - seq.start + 1) |-> group[seq.start + k - 1].node]
         IN << [type |-> "structural",
                start |-> group[seq.start].index,
                end |-> group[seq.end].index,
                count |-> seq.count,
                sample |-> seq.sample,
                items |-> items,
                refs |-> TruthyRefs(items)] >>
            \o GroupPatterns(group, Tail(sequences))

RECURSIVE StructuralLoop(_, _, _)
StructuralLoop(nodes, processed, indents) ==
    IF indents = << >> THEN << >>
    ELSE LET group == IndentGroup(nodes, processed, indents[1], 1)
             groupNodes == [k \in 1..Len(group) |-> group[k].node]
         IN (IF Len(group) < 3 THEN << >>
             ELSE GroupPatterns(group, findAllSimilarSequences(groupNodes)))
            \o StructuralLoop(nodes, processed, Tail(indents))

detectStructuralLists(nodes, semanticLists) ==
    LET processed == CoveredBy(semanticLists)
    IN StructuralLoop(nodes, processed, IndentOrder(nodes, processed, 1, {}))

RECURSIVE InsertByStart(_, _)
\* list put into a sequence sorted by start, after the entries that do not
\* start later (Array.prototype.sort is stable).
InsertByStart(sorted, list) ==
    IF sorted = << >> THEN <<list>>
    ELSE IF sorted[1].start <= list.start
         THEN <<sorted[1]>> \o InsertByStart(Tail(sorted), list)
         ELSE <<list>> \o sorted

RECURSIVE SortByStart(_, _)
SortByStart(lists, sorted) ==
    IF lists = << >> THEN sorted
    ELSE SortByStart(Tail(lists), InsertByStart(sorted, lists[1]))

\* The structural lists pushed after the semantic ones, then the sort.
SortedLists(nodes, semanticLists) ==
    SortByStart(semanticLists \o detectStructuralLists(nodes, semanticLists), << >>)

detectLists(nodes) == SortedLists(nodes, detectSemanticLists(nodes))

(***************************************************************************)
(* SmartOutlineSimple: rendering.  An output line is a record of what the  *)
(* text of the line says: kind "node" for a line of formatNode, kind       *)
(* "fold" for a fold line.  The field src (not part of the text) is the    *)
(* lineNumber of the node that the line was made from.                     *)
(***************************************************************************)
TEXT_TRUNCATE_LENGTH == 50
MAX_REFS_IN_SUMMARY == 5
Ellipsis == <<".", ".", ".">>

\* A variant that cuts a text of exactly TEXT_TRUNCATE_LENGTH characters
\* too.
formatNode_CutAtLimit(node) ==
    [kind |-> "node", indent |-> node.indent, type |-> node.type,
     content |-> IF Len(node.content) >= TEXT_TRUNCATE_LENGTH
                 THEN SubSeq(node.content, 1, TEXT_TRUNCATE_LENGTH) \o Ellipsis
                 ELSE node.content,
     ref |-> node.ref, pointer |-> node.hasInteraction,
     remaining |-> 0, refs |-> << >>, more |-> FALSE, src |-> node.lineNumber]

formatNode(node) ==
    [kind |-> "node", indent |-> node.indent, type |-> node.type,
     content |-> IF Len(node.content) > TEXT_TRUNCATE_LENGTH
                 THEN SubSeq(node.content, 1, TEXT_TRUNCATE_LENGTH) \o Ellipsis
                 ELSE node.content,
     ref |-> node.ref, pointer |-> node.hasInteraction,
     remaining |-> 0, refs |-> << >>, more |-> FALSE, src |-> node.lineNumber]

Min(a, b) == IF a < b THEN a ELSE b

formatList(list) ==
    <<formatNode(list.sample)>>
    \o (IF list.count > 1
        THEN << [kind |-> "fold", indent |-> list.sample.indent,
                 type |-> list.sample.type, content |-> NoText,
                 ref |-> NoRef, pointer |-> FALSE,
                 remaining |-> list.count - 1,
                 refs |-> SubSeq(list.refs, 2,
                                 Min(MAX_REFS_IN_SUMMARY + 1, Len(list.refs))),
                 more |-> Len(list.refs) > MAX_REFS_IN_SUMMARY + 1,
                 src |-> list.sample.lineNumber] >>
        ELSE << >>)

RECURSIVE ItemsOf(_)
\* new Set(lists.flatMap(l => l.items))
ItemsOf(lists) ==
    IF lists = << >> THEN {}
    ELSE {lists[1].items[k] : k \in 1..Len(lists[1].items)} \cup ItemsOf(Tail(lists))

NoOutput == [out |-> << >>, calls |-> << >>]

RECURSIVE processWithListDetection(_)
RECURSIVE RenderDetected(_, _)
RECURSIVE RenderLists(_)
RECURSIVE RenderNodes(_, _)

\* The result is the output lines together with the detectLists calls made:
\* for each call its argument and the lists it returned.
processWithListDetection(nodes) ==
    RenderDetected(nodes, IF Len(nodes) >= 3 THEN detectLists(nodes) ELSE << >>)

\* The body of processWithListDetection once detectLists has returned lists
\* (no list when it was not called).
RenderDetected(nodes, lists) ==
    LET call == IF Len(nodes) >= 3
                THEN << [nodes |-> nodes, lists |-> lists] >> ELSE << >>
    IN IF Len(lists) > 0
       THEN LET a == RenderLists(lists)
                b == RenderNodes(nodes, ItemsOf(lists))
            IN [out |-> a.out \o b.out, calls |-> call \o a.calls \o b.calls]
       ELSE LET b == RenderNodes(nodes, {})
            IN [out |-> b.out, calls |-> call \o b.calls]

\* for (const list of lists): the list, then the children of its sample.
RenderLists(lists) ==
    IF lists = << >> THEN NoOutput
    ELSE LET list == lists[1]
             c == IF Len(list.sample.children) > 0
                  THEN processWithListDetection(list.sample.children)
                  ELSE NoOutput
             rest == RenderLists(Tail(lists))
         IN [out |-> formatList(list) \o c.out \o rest.out,
             calls |-> c.calls \o rest.calls]

\* for (const node of nodes) that is not in listItems: the node, then its
\* children.
RenderNodes(nodes, listItems) ==
    IF nodes = << >> THEN NoOutput
    ELSE LET node == nodes[1]
             rest == RenderNodes(Tail(nodes), listItems)
         IN IF node \in listItems THEN rest
            ELSE LET c == IF Len(node.children) > 0
                          THEN processWithListDetection(node.children)
                          ELSE NoOutput
                 IN [out |-> <<formatNode(node)>> \o c.out \o rest.out,
                     calls |-> c.calls \o rest.calls]

(***************************************************************************)
(* SmartOutlineGenerator: the outline within a budget of maxLines lines.   *)
(* Its buildPageStructure builds the forest as buildTree does; the         *)
(* priority and the group of a node are computed from the node where they  *)
(* are read.  An output line is a record as above, with kind "summary"     *)
(* for the line that says how many lines are left out.                     *)
(***************************************************************************)
highPriorityTypes ==
    {"heading", "button", "link", "searchbox", "navigation", "main", "form",
     "article", "section"}
mediumPriorityTypes ==
    {"list", "listitem", "textbox", "checkbox", "radio", "select", "table"}
lowPriorityTypes == {"generic", "separator", "img", "text"}

\* The inline texts of the model hold no '/url:' and no '[level='; the
\* marker [cursor=pointer] is part of the content when no [ref=...] stands
\* before it.
calculatePriority(node) ==
    LET byType == IF node.type \in highPriorityTypes THEN 8
                  ELSE IF node.type \in mediumPriorityTypes THEN 6
                  ELSE IF node.type \in lowPriorityTypes THEN 3
                  ELSE 5
        pointerInContent == node.hasInteraction /\ node.ref = NoRef
        bonus == (IF Len(node.content) > 10 \/ pointerInContent THEN 1 ELSE 0)
                 + (IF pointerInContent THEN 1 ELSE 0)
        content == IF node.content # NoText \/ pointerInContent THEN bonus ELSE 0
        score == IF node.type = "navigation" THEN 9
                 ELSE IF node.type = "searchbox" THEN 10
                 ELSE byType - (node.indent \div 8) + content
    IN IF score < 0 THEN 0 ELSE IF score > 10 THEN 10 ELSE score

RECURSIVE Flatten(_)
\* structure.nodesByLine.values(): the nodes in line order.
Flatten(nodes) ==
    IF nodes = << >> THEN << >>
    ELSE <<nodes[1]>> \o Flatten(nodes[1].children) \o Flatten(Tail(nodes))

\* structure.nodes.values(): one node for each id, in the order in which
\* the ids were first set, each id with the node that set it last.
NodesByRef(flat) ==
    LET first == {i \in 1..Len(flat) :
                     /\ flat[i].ref # NoRef
                     /\ \A j \in 1..(i - 1) : flat[j].ref # flat[i].ref}
        LastOf(i) == CHOOSE j \in i..Len(flat) :
                        /\ flat[j].ref = flat[i].ref
                        /\ \A k \in (j + 1)..Len(flat) : flat[k].ref # flat[i].ref
        IsFirst(i) == i \in first
        order == SelectSeq([i \in 1..Len(flat) |-> i], IsFirst)
    IN [k \in 1..Len(order) |-> flat[LastOf(order[k])]]

RECURSIVE findConsecutiveGroups(_, _, _)
\* The loop of findConsecutiveGroups from position i on.
findConsecutiveGroups(nodes, i, currentGroup) ==
    IF i > Len(nodes)
    THEN IF Len(currentGroup) >= 3 THEN <<currentGroup>> ELSE << >>
    ELSE IF currentGroup = << >>
    THEN findConsecutiveGroups(nodes, i + 1, <<nodes[i]>>)
    ELSE LET lastNode == currentGroup[Len(currentGroup)]
             diff == nodes[i].lineNumber - lastNode.lineNumber
             isConsecutive == (IF diff < 0 THEN 0 - diff ELSE diff) < 100
             isSibling == nodes[i].indent = lastNode.indent
         IN IF isConsecutive /\ isSibling
            THEN findConsecutiveGroups(nodes, i + 1, Append(currentGroup, nodes[i]))
            ELSE (IF Len(currentGroup) >= 3 THEN <<currentGroup>> ELSE << >>)
                 \o findConsecutiveGroups(nodes, i + 1, <<nodes[i]>>)

\* The field members (not in the source's record) holds the nodes that
\* detectRepetitiveGroups marks isRepetitive.
createElementGroup(nodes) ==
    [type |-> nodes[1].type, indent |-> nodes[1].indent, count |-> Len(nodes),
     firstElement |-> nodes[1],
     refs |-> TruthyRefs(nodes),
     startLine |-> nodes[1].lineNumber, endLine |-> nodes[Len(nodes)].lineNumber,
     members |-> {nodes[k].lineNumber : k \in 1..Len(nodes)}]

RECURSIVE InsertByCount(_, _)
InsertByCount(groups, g) ==
    IF groups = << >> THEN <<g>>
    ELSE IF groups[1].count < g.count THEN <<g>> \o groups
    ELSE <<groups[1]>> \o InsertByCount(Tail(groups), g)

RECURSIVE SortByCount(_)
\* structure.groups.sort((a, b) => b.count - a.count), a stable sort.
SortByCount(groups) ==
    IF groups = << >> THEN << >>
    ELSE InsertByCount(SortByCount(SubSeq(groups, 1, Len(groups) - 1)),
                       groups[Len(groups)])

RECURSIVE GroupsOfKeys(_, _)
\* for (const [key, nodes] of typeIndentMap.entries()), the keys being the
\* positions in flat of the first node of each indent and type.
GroupsOfKeys(flat, keys) ==
    IF keys = << >> THEN << >>
    ELSE LET SameKey(n) == /\ n.indent = flat[keys[1]].indent
                           /\ n.type = flat[keys[1]].type
             nodes == SelectSeq(flat, SameKey)
             found == IF Len(nodes) < 3 THEN << >>
                      ELSE findConsecutiveGroups(nodes, 1, << >>)
         IN [k \in 1..Len(found) |-> createElementGroup(found[k])]
            \o GroupsOfKeys(flat, Tail(keys))

\* structure.groups after detectRepetitiveGroups.
detectRepetitiveGroups(flat) ==
    LET IsFirstOfKey(i) ==
            \A j \in 1..(i - 1) :
                flat[j].indent # flat[i].indent \/ flat[j].type # flat[i].type
    IN SortByCount(GroupsOfKeys(flat,
                                SelectSeq([i \in 1..Len(flat) |-> i], IsFirstOfKey)))

\* SmartOutlineGenerator.formatNode: no truncation of the text.
formatNodeAt(node, depthOffset) ==
    [kind |-> "node", indent |-> node.indent + depthOffset * 2, type |-> node.type,
     content |-> node.content, ref |-> node.ref, pointer |-> node.hasInteraction,
     remaining |-> 0, refs |-> << >>, more |-> FALSE, src |-> node.lineNumber]

isStructuralElement(node) ==
    \/ node.type \in {"navigation", "main", "header", "footer", "article",
                      "section", "aside"}
    \/ node.indent <= 4

\* nodes.filter(c => c.priority >= p)
AtLeast(nodes, p) ==
    LET Test(c) == calculatePriority(c) >= p IN SelectSeq(nodes, Test)

RECURSIVE extractSkeletonFrom(_, _, _)
\* The while loop of extractSkeleton: the lines pushed from here on.
extractSkeletonFrom(queue, lines, maxLines) ==
    IF queue = << >> \/ lines >= maxLines THEN << >>
    ELSE LET node == queue[1]
             shown == calculatePriority(node) >= 7 \/ isStructuralElement(node)
             room == maxLines - (lines + 1)
             importantChildren == Slice(AtLeast(node.children, 6), 3)
             children == IF ~shown THEN << >>
                         ELSE Slice(importantChildren, IF room < 0 THEN 0 ELSE room)
             pushed == IF shown
                       THEN <<formatNodeAt(node, 0)>>
                            \o [k \in 1..Len(children) |-> formatNodeAt(children[k], 1)]
                       ELSE << >>
         IN pushed \o extractSkeletonFrom(Tail(queue) \o AtLeast(node.children, 5),
                                          lines + Len(pushed), maxLines)

extractSkeleton(roots, maxLines) == extractSkeletonFrom(roots, 0, maxLines)

renderGroup(group, maxLines) ==
    LET first == group.firstElement
        childrenToShow == Min(3, Len(first.children))
        fold == IF group.count > 1
                THEN << [kind |-> "fold", indent |-> group.indent, type |-> group.type,
                         content |-> NoText, ref |-> NoRef, pointer |-> FALSE,
                         remaining |-> group.count - 1,
                         refs |-> SubSeq(group.refs, 2, Min(4, Len(group.refs))),
                         more |-> group.count - 1 > 3,
                         src |-> first.lineNumber] >>
                ELSE << >>
    IN Slice(<<formatNodeAt(first, 0)>>
             \o [i \in 1..childrenToShow |-> formatNodeAt(first.children[i], 1)]
             \o fold,
             maxLines)

RECURSIVE RenderGroups(_, _)
\* Step 2 of generateSmartOutline: the lines pushed, the budget left and the
\* lines marked used, from the given groups on.
RenderGroups(groups, remainingLines) ==
    IF groups = << >> \/ remainingLines <= 5
    THEN [out |-> << >>, remainingLines |-> remainingLines, usedLines |-> {}]
    ELSE LET groupOutput == renderGroup(groups[1], remainingLines)
             fits == Len(groupOutput) <= remainingLines
             rest == RenderGroups(Tail(groups),
                                  IF fits THEN remainingLines - Len(groupOutput)
                                  ELSE remainingLines)
         IN IF fits
            THEN [rest EXCEPT !.out = groupOutput \o @,
                              !.usedLines = @ \cup (groups[1].startLine..groups[1].endLine)]
            ELSE rest

RECURSIVE InsertByPriority(_, _)
InsertByPriority(nodes, n) ==
    IF nodes = << >> THEN <<n>>
    ELSE IF calculatePriority(nodes[1]) < calculatePriority(n) THEN <<n>> \o nodes
    ELSE <<nodes[1]>> \o InsertByPriority(Tail(nodes), n)

RECURSIVE SortByPriority(_)
\* sort((a, b) => b.priority - a.priority), a stable sort.
SortByPriority(nodes) ==
    IF nodes = << >> THEN << >>
    ELSE InsertByPriority(SortByPriority(SubSeq(nodes, 1, Len(nodes) - 1)),
                          nodes[Len(nodes)])

\* Steps 2 to 4 of generateSmartOutline, the skeleton being pushed.  No
\* skeleton line holds 'lineNumber:', so the skeleton marks no line used.
AfterSkeleton(flat, groups, totalLines, maxLines, skeleton) ==
    LET g == RenderGroups(groups, maxLines - Len(skeleton))
        repetitive == UNION {groups[k].members : k \in 1..Len(groups)}
        Free(n) == n.lineNumber \notin g.usedLines /\ n.lineNumber \notin repetitive
        priorityNodes == SortByPriority(SelectSeq(NodesByRef(flat), Free))
        taken == Slice(priorityNodes, IF g.remainingLines < 0 THEN 0 ELSE g.remainingLines)
        remainingLines == g.remainingLines - Len(taken)
    IN skeleton \o g.out
       \o [k \in 1..Len(taken) |-> formatNodeAt(taken[k], 0)]
       \o (IF remainingLines <= 0 /\ totalLines > maxLines
           THEN << [kind |-> "summary", indent |-> 0, type |-> "", content |-> NoText,
                    ref |-> NoRef, pointer |-> FALSE,
                    remaining |-> totalLines - maxLines, refs |-> << >>,
                    more |-> TRUE, src |-> 0] >>
           ELSE << >>)

\* Math.floor(remainingLines * 0.3)
ThreeTenths(n) == (3 * n) \div 10

generateSmartOutline(roots, totalLines, maxLines) ==
    AfterSkeleton(Flatten(roots), detectRepetitiveGroups(Flatten(roots)), totalLines,
                  maxLines, extractSkeleton(roots, ThreeTenths(maxLines)))

\* lines.slice(0, end): a negative end counts from the end of the array.
SliceTo(lines, end) ==
    IF end >= 0 THEN Slice(lines, end)
    ELSE SubSeq(lines, 1, Len(lines) + end)

\* SmartOutlineGenerator.generate.  No statement of it or of the functions
\* it calls throws; what it returns is the text of the 'simple' mode (the
\* lines kept) or the outline with its header counts.
generateWithin(lines, options) ==
    IF options.mode = "simple"
    THEN [kind |-> "text", lines |-> SliceTo(lines, options.maxLines)]
    ELSE LET outputLines == generateSmartOutline(buildTree(lines), Len(lines),
                                                 options.maxLines)
         IN [kind |-> "outline", rendered |-> Len(outputLines),
             original |-> Len(lines), lines |-> outputLines]

(***************************************************************************)
(* Helpers on forests.                                                     *)
(***************************************************************************)
RECURSIVE AllNodes(_)
\* Every node reachable from the given roots, as a set of node values.
AllNodes(nodes) ==
    IF nodes = << >> THEN {}
    ELSE {nodes[1]} \cup AllNodes(nodes[1].children) \cup AllNodes(Tail(nodes))

RefsOf(nodes) == {n.ref : n \in AllNodes(nodes)} \ {NoRef}

\* The siblings that one call of detectLists asks computeHash for:
\* findSimilarSequence hashes every node of a sequence of 3 or more, and it
\* is called on every run of 3 or more listitems and on every indentation
\* group of 3 or more siblings outside the semantic patterns.
HashedIn(call) ==
    LET nodes == call.nodes
        IsSemantic(list) == list.type = "semantic"
        processed == CoveredBy(SelectSeq(call.lists, IsSemantic))
        inRun == {k \in 1..Len(nodes) :
                    \E a \in 1..k, b \in k..Len(nodes) :
                        /\ b - a + 1 >= 3
                        /\ \A j \in a..b : nodes[j].type = "listitem"}
        inGroup == {k \in 1..Len(nodes) \ processed :
                      Cardinality({j \in 1..Len(nodes) \ processed :
                                      nodes[j].indent = nodes[k].indent}) >= 3}
    IN {nodes[k] : k \in inRun \cup inGroup}

RECURSIVE NodesGiven(_)
\* The nodes that the detectLists calls of one generate ask computeHash for.
NodesGiven(detectCalls) ==
    IF detectCalls = << >> THEN {}
    ELSE HashedIn(detectCalls[1]) \cup NodesGiven(Tail(detectCalls))

\* hashCache after a call: computeHash has added the signature of each node
\* it was asked for and did not find.
CacheAfter(hashed) ==
    LET keys == {identity(node) : node \in hashed} \cup DOMAIN hashCache
    IN [key \in keys |->
          IF key \in DOMAIN hashCache THEN hashCache[key]
          ELSE SimHashOf(CHOOSE node \in hashed : identity(node) = key)]

(***************************************************************************)
(* Actions.                                                                *)
(***************************************************************************)
Init ==
    /\ snapshot = <<BlankLine>>
    /\ pc = "input"
    /\ rootNodes = << >>
    /\ before = << >>
    /\ cleanCalls = 0
    /\ detected = << >>
    /\ outlineLines = << >>
    /\ header = [rendered |-> 0, original |-> 0]
    /\ nodeA = NoNode /\ nodeB = NoNode
    /\ sigA = {} /\ sigB = {}
    /\ similarity = NoResult /\ distances = NoResult
    /\ hashCache = << >> /\ calls = 0 /\ returned = << >>
    /\ request = NoResult /\ outcome = NoResult
    /\ building = EmptyBuild /\ nextLine = 0
    /\ work = NoResult /\ scan = NoResult

\* The text before generate is called: the caller's text grows by one line.
\* The line's reference id, when it has one, is its position in the text.
AppendLine(text, line) ==
    IF text = <<BlankLine>> /\ ~line.blank THEN <<line>> ELSE Append(text, line)

\* What one added line looks like: shape.ref says whether it has an id.
MakeLine(shape, pos) ==
    IF shape.kind = "blank" THEN BlankLine
    ELSE IF shape.kind = "bad" THEN BadLine(shape.indent)
    ELSE ElemLine(shape.indent, shape.type, shape.content,
                  IF shape.ref THEN pos ELSE NoRef)

AddLine(shapes, max) ==
    /\ pc = "input"
    /\ Len(snapshot) < max
    /\ \E shape \in shapes :
         LET pos == IF snapshot = <<BlankLine>> /\ shape.kind # "blank"
                    THEN 1 ELSE Len(snapshot) + 1
         IN snapshot' = AppendLine(snapshot, MakeLine(shape, pos))
    /\ UNCHANGED <<pc, rootNodes, before, cleanCalls, detected, outlineLines, header>>
    /\ UNCHANGED others

\* generate, line 19-20: split and buildTree.
Build ==
    /\ pc = "input"
    /\ rootNodes' = buildTree(snapshot)
    /\ pc' = "built"
    /\ UNCHANGED <<snapshot, before, cleanCalls, detected, outlineLines, header>>
    /\ UNCHANGED others

\* generate, line 23: removeWrappers on the forest just built.
Clean ==
    /\ pc = "built"
    /\ before' = rootNodes
    /\ rootNodes' = removeWrappers(rootNodes)
    /\ cleanCalls' = 1
    /\ pc' = "cleaned"
    /\ UNCHANGED <<snapshot, detected, outlineLines, header>>
    /\ UNCHANGED others

\* removeWrappers called again, by its caller, on the forest it returned.
CleanAgain ==
    /\ pc = "cleaned"
    /\ cleanCalls = 1
    /\ before' = rootNodes
    /\ rootNodes' = removeWrappers(rootNodes)
    /\ cleanCalls' = 2
    /\ UNCHANGED <<snapshot, pc, detected, outlineLines, header>>
    /\ UNCHANGED others

\* generate, lines 26-28: processWithListDetection and the header.
Render ==
    /\ pc = "cleaned"
    /\ cleanCalls = 1
    /\ \E r \in {processWithListDetection(rootNodes)} :
          /\ outlineLines' = r.out
          /\ detected' = r.calls
          /\ header' = [rendered |-> Len(r.out), original |-> Len(snapshot)]
          /\ hashCache' = CacheAfter(NodesGiven(r.calls))
    /\ calls' = calls + 1
    /\ pc' = "done"
    /\ UNCHANGED <<snapshot, rootNodes, before, cleanCalls, hashVars, returned,
                   budgetVars, buildVars, stageVars>>

(***************************************************************************)
(* generate on texts of a few lines.                                       *)
(***************************************************************************)
Elem(indent, type, content, ref) ==
    [kind |-> "elem", indent |-> indent, type |-> type, content |-> content, ref |-> ref]

Shapes ==
    { Elem(0, "button", NoText, TRUE), Elem(1, "button", NoText, TRUE),
      Elem(0, "heading", NoText, TRUE), Elem(0, "generic", NoText, TRUE),
      [kind |-> "blank"] }

Next == AddLine(Shapes, MaxLines) \/ Build \/ Clean \/ Render

Spec == Init /\ [][Next]_vars

(***************************************************************************)
(* generate on flat texts: siblings of two kinds, all at indentation 0.    *)
(***************************************************************************)
FlatShapes == { Elem(0, "button", NoText, TRUE), Elem(0, "heading", NoText, TRUE) }

NextFlat == AddLine(FlatShapes, MaxFlatLines) \/ Build \/ Clean \/ Render

SpecFlat == Init /\ [][NextFlat]_vars

(***************************************************************************)
(* generate on texts of listitems, with or without inline text, and their  *)
(* children.                                                               *)
(***************************************************************************)
ListShapes ==
    { Elem(0, "listitem", NoText, TRUE), Elem(0, "listitem", SomeText, TRUE),
      Elem(1, "button", NoText, TRUE) }

NextList == AddLine(ListShapes, MaxListLines) \/ Build \/ Clean \/ Render

SpecList == Init /\ [][NextList]_vars

(***************************************************************************)
(* generate on flat texts of buttons, some of them without a reference id. *)
(***************************************************************************)
RefShapes == { Elem(0, "button", NoText, TRUE), Elem(0, "button", NoText, FALSE) }

NextRefs == AddLine(RefShapes, MaxRefLines) \/ Build \/ Clean \/ Render

SpecRefs == Init /\ [][NextRefs]_vars

(***************************************************************************)
(* The wrapper remover on its own: forests of generic and button nodes,    *)
(* indented as the snapshot generator indents: the first line at 0, a line *)
(* at most one level deeper than the line before it.                       *)
(***************************************************************************)
DeepestNext ==
    IF snapshot = <<BlankLine>> THEN 0 ELSE snapshot[Len(snapshot)].indent + 1

WrapShapes ==
    { Elem(i, s[1], s[2], s[3]) :
        i \in 0..DeepestNext,
        s \in { <<"generic", NoText, FALSE>>, <<"generic", NoText, TRUE>>,
                <<"generic", SomeText, FALSE>>, <<"button", NoText, TRUE>> } }

NextWrap == AddLine(WrapShapes, MaxWrapLines) \/ Build \/ Clean \/ CleanAgain

SpecWrap == Init /\ [][NextWrap]_vars


(***************************************************************************)
(* DOMSimHash.areSimilar and hammingDistance called on their own: on the   *)
(* first nodes of a few forests, and on their signatures and the           *)
(* signatures at the ends of the 32-bit range.                             *)
(***************************************************************************)
ProbeTexts ==
    { <<ElemLine(0, "button", NoText, 1)>>,
      <<ElemLine(0, "link", NoText, 1)>>,
      <<ElemLine(0, "heading", SomeText, 1)>>,
      <<ElemLine(0, "listitem", NoText, 1), ElemLine(1, "button", NoText, 2)>>,
      <<ElemLine(0, "generic", NoText, 1), ElemLine(1, "heading", NoText, 2),
        ElemLine(1, "link", NoText, 3)>> }

ProbeNodes == {buildTree(text)[1] : text \in ProbeTexts}

Signatures ==
    {computeHash(node) : node \in ProbeNodes}
        \cup { {}, 0..(HASH_BITS - 1), {HASH_BITS - 1}, 0..(HASH_BITS - 2) }

InitHash ==
    /\ snapshot = <<BlankLine>>
    /\ pc = "input"
    /\ rootNodes = << >>
    /\ before = << >>
    /\ cleanCalls = 0
    /\ detected = << >>
    /\ outlineLines = << >>
    /\ header = [rendered |-> 0, original |-> 0]
    /\ hashCache = << >> /\ calls = 0 /\ returned = << >>
    /\ nodeA \in ProbeNodes /\ nodeB \in ProbeNodes
    /\ sigA \in Signatures /\ sigB \in Signatures
    /\ similarity = NoResult /\ distances = NoResult
    /\ request = NoResult /\ outcome = NoResult
    /\ building = EmptyBuild /\ nextLine = 0
    /\ work = NoResult /\ scan = NoResult

\* areSimilar called on the two nodes, in both orders, and on the first
\* node and itself.
CallAreSimilar ==
    /\ similarity = NoResult
    /\ similarity' = [ab |-> areSimilar(nodeA, nodeB),
                      ba |-> areSimilar(nodeB, nodeA),
                      aa |-> areSimilar(nodeA, nodeA)]
    /\ UNCHANGED <<snapshot, pc, rootNodes, before, cleanCalls, detected,
                   outlineLines, header, nodeA, nodeB, sigA, sigB, distances>>
    /\ UNCHANGED <<callVars, budgetVars, buildVars, stageVars>>

\* hammingDistance called on the two signatures, in both orders, and on the
\* first signature and itself.
CallHammingDistance ==
    /\ distances = NoResult
    /\ distances' = [ab |-> hammingDistance(sigA, sigB),
                     ba |-> hammingDistance(sigB, sigA),
                     aa |-> hammingDistance(sigA, sigA)]
    /\ UNCHANGED <<snapshot, pc, rootNodes, before, cleanCalls, detected,
                   outlineLines, header, nodeA, nodeB, sigA, sigB, similarity>>
    /\ UNCHANGED <<callVars, budgetVars, buildVars, stageVars>>

NextHash == CallAreSimilar \/ CallHammingDistance

SpecHash == InitHash /\ [][NextHash]_vars

\* C13: areSimilar(a, a) is true and areSimilar(a, b) = areSimilar(b, a);
\* hammingDistance(h1, h2) = hammingDistance(h2, h1), it is 0 when h1 = h2
\* and it lies in 0..32, also for signatures whose top bit is set.
C13_SimilarityReflexiveSymmetric ==
    /\ similarity # NoResult =>
          /\ similarity.aa
          /\ similarity.ab = similarity.ba
    /\ distances # NoResult =>
          /\ distances.ab = distances.ba
          /\ distances.aa = 0
          /\ sigA = sigB => distances.ab = 0
          /\ distances.ab \in 0..HASH_BITS

\* C13's case: both functions were called; the first signature has the top
\* bit set and the second has not, so that h1 ^ h2 is negative; the nodes
\* differ and are similar.
C13_Witness ==
    /\ similarity # NoResult
    /\ distances # NoResult
    /\ (HASH_BITS - 1) \in sigA
    /\ (HASH_BITS - 1) \notin sigB
    /\ sigB # {}
    /\ distances.ab > SIMILARITY_THRESHOLD
    /\ computeHash(nodeA) # computeHash(nodeB)
    /\ similarity.ab

\* The feature `d${getMaxDepth(node)}` of a node.
DepthFeature(node) == <<ChD>> \o Digits(getMaxDepth(node))

\* C26: for every node that computeHash was called on, the weight of its
\* skeleton feature and the weight of its shape feature are each greater
\* than the weight of its depth feature.
C26_SkeletonAndShapeOutweighDepth ==
    similarity # NoResult =>
        /\ getWeight(getSkeletonSignature(nodeA)) > getWeight(DepthFeature(nodeA))
        /\ getWeight(getShapeSignature(nodeA)) > getWeight(DepthFeature(nodeA))

(***************************************************************************)
(* generate on texts whose nodes have inline text of a length around       *)
(* TEXT_TRUNCATE_LENGTH.                                                   *)
(***************************************************************************)
Alphabet == <<"a", "b", "c", "d", "e", "f", "g">>

\* An inline text of n characters.
TextOf(n) == [i \in 1..n |-> Alphabet[(i % Len(Alphabet)) + 1]]

TextLengths ==
    {0, TEXT_TRUNCATE_LENGTH - 1, TEXT_TRUNCATE_LENGTH, TEXT_TRUNCATE_LENGTH + 1,
     TEXT_TRUNCATE_LENGTH + 10}

TextShapes ==
    { Elem(0, type, TextOf(n), TRUE) : type \in {"button", "heading"}, n \in TextLengths }

NextText == AddLine(TextShapes, MaxTextLines) \/ Build \/ Clean \/ Render

SpecText == Init /\ [][NextText]_vars

\* The node of the forest that was made from the given source line.
NodeOfLine(nodes, lineNumber) ==
    CHOOSE n \in AllNodes(nodes) : n.lineNumber = lineNumber

\* C14: on every line that formatNode renders, a text of at most 50
\* characters is the node's text unchanged, a longer text is its first 50
\* characters followed by the marker "..." (53 characters in all), and the
\* reference id is the node's id whatever the length of the text.
C14_TextTruncatedRefKept ==
    pc = "done" =>
        \A o \in 1..Len(outlineLines) :
            outlineLines[o].kind = "node" =>
                LET node == NodeOfLine(rootNodes, outlineLines[o].src)
                    content == outlineLines[o].content
                IN /\ outlineLines[o].ref = node.ref
                   /\ IF Len(node.content) <= 50
                      THEN content = node.content
                      ELSE /\ Len(content) = 53
                           /\ SubSeq(content, 1, 50) = SubSeq(node.content, 1, 50)
                           /\ SubSeq(content, 51, 53) = <<".", ".", ".">>

\* C14's case: the output has a line of a node whose text has exactly 50
\* characters, a line of a node whose text is longer, and a line of a node
\* whose text is longer by ten, each with the node's id.
C14_Witness ==
    /\ pc = "done"
    /\ \E a, b, c \in 1..Len(outlineLines) :
          /\ outlineLines[a].kind = "node"
          /\ outlineLines[b].kind = "node"
          /\ outlineLines[c].kind = "node"
          /\ Len(NodeOfLine(rootNodes, outlineLines[a].src).content) = 50
          /\ Len(NodeOfLine(rootNodes, outlineLines[b].src).content) = 51
          /\ Len(NodeOfLine(rootNodes, outlineLines[c].src).content) = 60
          /\ outlineLines[a].ref # NoRef
          /\ outlineLines[b].ref # NoRef
          /\ outlineLines[c].ref # NoRef

(***************************************************************************)
(* Several generate calls served by one generator instance, whose          *)
(* DOMSimHash keeps hashCache from call to call.                           *)
(***************************************************************************)
CallTexts ==
    { <<ElemLine(0, "button", NoText, 1), ElemLine(0, "button", NoText, 2),
        ElemLine(0, "button", NoText, 3)>>,
      <<ElemLine(0, "heading", NoText, 1), ElemLine(0, "link", NoText, 2),
        ElemLine(0, "button", NoText, 3)>>,
      <<ElemLine(0, "button", NoText, 1), ElemLine(0, "button", NoText, 2),
        ElemLine(0, "button", NoText, 3), ElemLine(0, "heading", NoText, 4)>>,
      <<ElemLine(0, "heading", NoText, 1), ElemLine(0, "heading", NoText, 2),
        ElemLine(0, "heading", NoText, 3), ElemLine(0, "button", NoText, 4)>>,
      <<ElemLine(0, "generic", NoText, 1), ElemLine(1, "link", NoText, 2),
        ElemLine(1, "link", NoText, 3), ElemLine(1, "heading", NoText, 4)>> }

\* One call of generate, from split to the returned string.
Generate ==
    /\ calls < MaxCalls
    /\ \E text \in CallTexts :
          \E r \in {processWithListDetection(removeWrappers(buildTree(text)))} :
             /\ returned' = Append(returned,
                               [input |-> text,
                                output |-> [rendered |-> Len(r.out),
                                            original |-> Len(text),
                                            lines |-> r.out]])
             /\ hashCache' = CacheAfter(NodesGiven(r.calls))
    /\ calls' = calls + 1
    /\ UNCHANGED <<snapshot, pc, rootNodes, before, cleanCalls, detected,
                   outlineLines, header, hashVars, budgetVars, buildVars, stageVars>>

NextCalls == Generate

SpecCalls == Init /\ [][NextCalls]_vars

\* C15: two generate calls on the same instance with the same input text
\* return the same string, whatever calls were served before or between
\* them.
C15_SameInputSameOutput ==
    \A i, j \in 1..Len(returned) :
        returned[i].input = returned[j].input =>
            returned[i].output = returned[j].output

\* C15's case: the instance has served a text, then another text whose nodes
\* were looked up in the cache left by the first, then the first text again.
C15_Witness ==
    /\ Len(returned) = 3
    /\ returned[1].input = returned[3].input
    /\ returned[2].input # returned[1].input
    /\ returned[1].output.rendered < returned[1].output.original
    /\ returned[2].output.rendered = returned[2].output.original
    /\ \E key \in DOMAIN hashCache : key[1] = 1
    /\ \E key \in DOMAIN hashCache : key[1] = 2

(***************************************************************************)
(* SmartOutlineGenerator.generate on texts of a few lines, with a budget   *)
(* of lines that is negative, zero, small or large, in both modes.         *)
(***************************************************************************)
BudgetShapes ==
    { Elem(0, "navigation", NoText, TRUE), Elem(1, "link", SomeText, TRUE),
      Elem(0, "button", NoText, TRUE), Elem(0, "generic", NoText, FALSE) }

Budgets == {-1, 0, 1, 4, 10, 200}

SmartGenerate ==
    /\ pc = "input"
    /\ \E maxLines \in Budgets, mode \in {"smart", "simple"} :
          /\ request' = [maxLines |-> maxLines, mode |-> mode]
          /\ outcome' = generateWithin(snapshot, [maxLines |-> maxLines, mode |-> mode])
    /\ pc' = "done"
    /\ UNCHANGED <<snapshot, rootNodes, before, cleanCalls, detected, outlineLines,
                   header, hashVars, callVars, buildVars, stageVars>>

NextBudget == AddLine(BudgetShapes, MaxBudgetLines) \/ SmartGenerate

SpecBudget == Init /\ [][NextBudget]_vars

\* C16: SmartOutlineGenerator.generate called with maxLines <= 0 ends with
\* an error and returns no outline text.
C16_NonPositiveBudgetRejected ==
    (outcome # NoResult /\ request.maxLines <= 0) => outcome.kind = "error"

(***************************************************************************)
(* buildTree line by line, on texts that hold blank lines and lines        *)
(* without "- <type>" among element lines of three indentations.           *)
(***************************************************************************)
ParseShapes ==
    { Elem(0, "button", NoText, TRUE), Elem(1, "button", NoText, TRUE),
      Elem(2, "button", NoText, TRUE), [kind |-> "blank"],
      [kind |-> "bad", indent |-> 0] }

\* buildTree, lines 71-72.
StartBuild ==
    /\ pc = "input"
    /\ building' = EmptyBuild
    /\ nextLine' = 1
    /\ pc' = "building"
    /\ UNCHANGED <<snapshot, rootNodes, before, cleanCalls, detected, outlineLines,
                   header, hashVars, callVars, budgetVars, stageVars>>

\* buildTree, lines 74-94: one iteration of the loop.
BuildLine ==
    /\ pc = "building"
    /\ nextLine <= Len(snapshot)
    /\ building' = BuildStep(building, snapshot[nextLine], nextLine - 1)
    /\ nextLine' = nextLine + 1
    /\ UNCHANGED <<snapshot, pc, rootNodes, before, cleanCalls, detected,
                   outlineLines, header, hashVars, callVars, budgetVars, stageVars>>

\* buildTree, line 96.
FinishBuild ==
    /\ pc = "building"
    /\ nextLine > Len(snapshot)
    /\ rootNodes' = ToForest(building, building.rootNodes)
    /\ pc' = "built"
    /\ UNCHANGED <<snapshot, before, cleanCalls, detected, outlineLines, header,
                   hashVars, callVars, budgetVars, buildVars, stageVars>>

NextLines ==
    AddLine(ParseShapes, MaxParseLines) \/ StartBuild \/ BuildLine \/ FinishBuild

SpecLines == Init /\ [][NextLines]_vars

(***************************************************************************)
(* generate with its loops taken one iteration at a time: the collapse     *)
(* loop of processNode on every root, then the rounds of                   *)
(* findAllSimilarSequences on the root siblings with the window scan of    *)
(* findSimilarSequence inside each round; the rest of generate is one      *)
(* step.  A text is a chain of generics nested one in the other, each the  *)
(* only child of the one before, then elements at indentation 0.           *)
(***************************************************************************)
StageShapes ==
    IF snapshot = <<BlankLine>>
    THEN { Elem(0, "generic", NoText, FALSE), Elem(0, "button", NoText, TRUE),
           Elem(0, "heading", NoText, TRUE) }
    ELSE IF snapshot[Len(snapshot)].type = "generic"
    THEN { Elem(snapshot[Len(snapshot)].indent + 1, "generic", NoText, FALSE),
           Elem(snapshot[Len(snapshot)].indent + 1, "button", NoText, TRUE) }
    ELSE { Elem(0, "button", NoText, TRUE), Elem(0, "heading", NoText, TRUE) }

\* removeWrappers, line 16, called on the roots.
StartWrappers ==
    /\ pc = "built"
    /\ work' = [todo |-> removeEmptyGenerics(rootNodes), node |-> NoNode,
                done |-> << >>, iterations |-> 0]
    /\ pc' = "unwrapping"
    /\ UNCHANGED <<snapshot, rootNodes, before, cleanCalls, detected, outlineLines,
                   header, hashVars, callVars, budgetVars, buildVars, scan>>

\* processNode, lines 60-63: the next root, its children processed.
EnterNode ==
    /\ pc = "unwrapping"
    /\ work.node = NoNode
    /\ work.todo # << >>
    /\ work' = [work EXCEPT
                  !.todo = Tail(@),
                  !.node = IF Len(work.todo[1].children) > 0
                           THEN [work.todo[1] EXCEPT
                                    !.children = removeWrappers(@)]
                           ELSE work.todo[1]]
    /\ UNCHANGED <<snapshot, pc, rootNodes, before, cleanCalls, detected,
                   outlineLines, header, hashVars, callVars, budgetVars, buildVars,
                   scan>>

\* processNode, lines 66-79: one iteration of the while loop.
CollapseStep ==
    /\ pc = "unwrapping"
    /\ work.node # NoNode
    /\ isUselessWrapper(work.node)
    /\ \E onlyChild \in {mergeAttributes(work.node, work.node.children[1])} :
          work' = [work EXCEPT
                     !.node = IF Len(onlyChild.children) > 0
                              THEN [onlyChild EXCEPT
                                       !.children = removeWrappers(@)]
                              ELSE onlyChild,
                     !.iterations = @ + 1]
    /\ UNCHANGED <<snapshot, pc, rootNodes, before, cleanCalls, detected,
                   outlineLines, header, hashVars, callVars, budgetVars, buildVars,
                   scan>>

\* processNode, line 81: the loop's test fails, the node is returned.
LeaveNode ==
    /\ pc = "unwrapping"
    /\ work.node # NoNode
    /\ ~isUselessWrapper(work.node)
    /\ work' = [work EXCEPT !.done = Append(@, work.node), !.node = NoNode]
    /\ UNCHANGED <<snapshot, pc, rootNodes, before, cleanCalls, detected,
                   outlineLines, header, hashVars, callVars, budgetVars, buildVars,
                   scan>>

\* removeWrappers, line 18, returns; generate, line 23.
FinishWrappers ==
    /\ pc = "unwrapping"
    /\ work.node = NoNode
    /\ work.todo = << >>
    /\ before' = rootNodes
    /\ rootNodes' = work.done
    /\ cleanCalls' = 1
    /\ pc' = "cleaned"
    /\ UNCHANGED <<snapshot, detected, outlineLines, header, hashVars, callVars,
                   budgetVars, buildVars, stageVars>>

\* findAllSimilarSequences, lines 286-293, called on the root siblings.
\* starts and consumed (not in the source) count, for each sibling, the
\* times it was the base of a window (line 239) and the times it was marked
\* processed as a member of a run (line 326).
StartRounds ==
    /\ pc = "cleaned"
    /\ scan' = [nodes |-> rootNodes, processed |-> {}, sequences |-> << >>,
                phase |-> "round", indexMap |-> << >>, i |-> 0, j |-> 0,
                similarCount |-> 0, maxLen |-> 0, bestStart |-> 0, bestEnd |-> 0,
                rounds |-> 0,
                starts |-> [k \in 1..Len(rootNodes) |-> 0],
                consumed |-> [k \in 1..Len(rootNodes) |-> 0]]
    /\ pc' = "scanning"
    /\ UNCHANGED <<snapshot, rootNodes, before, cleanCalls, detected, outlineLines,
                   header, hashVars, callVars, budgetVars, buildVars, work>>

\* The node at position k of the array unprocessed.
UnprocessedNode(k) == scan.nodes[scan.indexMap[k]]

\* findAllSimilarSequences, lines 296-311, and findSimilarSequence, lines
\* 230-235: the test of the while loop, the unprocessed siblings, the break
\* when fewer than 3 are left, else the call of findSimilarSequence.
RoundStep ==
    /\ pc = "scanning"
    /\ scan.phase = "round"
    /\ \E indexMap \in {Unprocessed(Len(scan.nodes), scan.processed, 1)} :
          scan' = IF Cardinality(scan.processed) >= Len(scan.nodes)
                     \/ Len(indexMap) < 3
                  THEN [scan EXCEPT !.phase = "returned"]
                  ELSE [scan EXCEPT !.phase = "window", !.indexMap = indexMap,
                                    !.rounds = @ + 1,
                                    !.i = 1, !.maxLen = 0,
                                    !.bestStart = 1, !.bestEnd = 1]
    /\ UNCHANGED <<snapshot, pc, rootNodes, before, cleanCalls, detected,
                   outlineLines, header, hashVars, callVars, budgetVars, buildVars,
                   work>>

\* findSimilarSequence, lines 238-241: the next window; lines 265-274 and
\* findAllSimilarSequences, lines 313-331, when the for loop has ended: the
\* run found is pushed and its siblings are marked, or the loop breaks.
WindowStep ==
    /\ pc = "scanning"
    /\ scan.phase = "window"
    /\ scan' =
         IF scan.i <= Len(scan.indexMap) - 2
         THEN [scan EXCEPT !.phase = "extend", !.j = scan.i + 1, !.similarCount = 1,
                           !.starts[scan.indexMap[scan.i]] = @ + 1]
         ELSE IF scan.maxLen >= 3
         THEN [scan EXCEPT
                 !.phase = "round",
                 !.sequences =
                     Append(@, [start |-> scan.indexMap[scan.bestStart],
                                end |-> scan.indexMap[scan.bestEnd],
                                count |-> scan.bestEnd - scan.bestStart + 1,
                                sample |-> scan.nodes[scan.indexMap[scan.bestStart]]]),
                 !.processed =
                     @ \cup {scan.indexMap[k] : k \in scan.bestStart..scan.bestEnd},
                 !.consumed =
                     [p \in DOMAIN @ |->
                        IF \E k \in scan.bestStart..scan.bestEnd : scan.indexMap[k] = p
                        THEN @[p] + 1 ELSE @[p]]]
         ELSE [scan EXCEPT !.phase = "returned"]
    /\ UNCHANGED <<snapshot, pc, rootNodes, before, cleanCalls, detected,
                   outlineLines, header, hashVars, callVars, budgetVars, buildVars,
                   work>>

\* findSimilarSequence, lines 244-262: one iteration of the while loop, or
\* its end and the i++ of the for loop.
ExtendStep ==
    /\ pc = "scanning"
    /\ scan.phase = "extend"
    /\ scan' =
         IF scan.j > Len(scan.indexMap)
         THEN [scan EXCEPT !.phase = "window", !.i = @ + 1]
         ELSE IF hammingDistance(computeHash(UnprocessedNode(scan.i)),
                                 computeHash(UnprocessedNode(scan.j))) <= 3
         THEN IF scan.similarCount + 1 >= 3 /\ scan.similarCount + 1 > scan.maxLen
              THEN [scan EXCEPT !.similarCount = @ + 1, !.j = @ + 1,
                                !.maxLen = scan.similarCount + 1,
                                !.bestStart = scan.i, !.bestEnd = scan.j]
              ELSE [scan EXCEPT !.similarCount = @ + 1, !.j = @ + 1]
         ELSE IF scan.similarCount >= 3
         THEN [scan EXCEPT !.phase = "window", !.i = @ + 1]
         ELSE [scan EXCEPT !.j = @ + 1]
    /\ UNCHANGED <<snapshot, pc, rootNodes, before, cleanCalls, detected,
                   outlineLines, header, hashVars, callVars, budgetVars, buildVars,
                   work>>

\* findAllSimilarSequences, line 334.
FinishRounds ==
    /\ pc = "scanning"
    /\ scan.phase = "returned"
    /\ pc' = "scanned"
    /\ UNCHANGED <<snapshot, rootNodes, before, cleanCalls, detected, outlineLines,
                   header, hashVars, callVars, budgetVars, buildVars, stageVars>>

\* generate, lines 26-28: processWithListDetection and the returned string.
ReturnOutline ==
    /\ pc = "scanned"
    /\ \E r \in {processWithListDetection(rootNodes)} :
          /\ outlineLines' = r.out
          /\ detected' = r.calls
          /\ header' = [rendered |-> Len(r.out), original |-> Len(snapshot)]
          /\ hashCache' = CacheAfter(NodesGiven(r.calls))
    /\ calls' = calls + 1
    /\ pc' = "done"
    /\ UNCHANGED <<snapshot, rootNodes, before, cleanCalls, hashVars, returned,
                   budgetVars, buildVars, stageVars>>

\* The steps of one generate call.
StageStep ==
    \/ Build \/ StartWrappers \/ EnterNode \/ CollapseStep \/ LeaveNode
    \/ FinishWrappers \/ StartRounds \/ RoundStep \/ WindowStep \/ ExtendStep
    \/ FinishRounds \/ ReturnOutline

NextStages == AddLine(StageShapes, MaxStageLines) \/ StageStep

SpecStages == Init /\ [][NextStages]_vars

\* The steps whose weak fairness is stated with WF_.  For the other four
\* steps, whose successor state is costly to compute (buildTree, the
\* children's removeWrappers, computeHash, processWithListDetection), weak
\* fairness is written out with CallEnabled and CallStep.
LoopStep ==
    \/ StartWrappers \/ CollapseStep \/ LeaveNode \/ FinishWrappers
    \/ StartRounds \/ RoundStep \/ WindowStep \/ FinishRounds

\* Build, EnterNode, ExtendStep or ReturnOutline is enabled: each has no
\* guard but the position of generate.
CallEnabled ==
    \/ pc \in {"input", "scanned"}
    \/ pc = "unwrapping" /\ work.node = NoNode /\ work.todo # << >>
    \/ pc = "scanning" /\ scan.phase = "extend"

\* A step of NextStages from a state of CallEnabled is one of these four
\* steps exactly when it moves pc, work or scan (AddLine moves none).
CallStep == CallEnabled /\ (pc' # pc \/ work' # work \/ scan' # scan)

\* generate runs on one thread and waits for nothing: once called, each of
\* its steps is taken.  The second conjunct is weak fairness of
\* Build \/ EnterNode \/ ExtendStep \/ ReturnOutline, with its enabling
\* condition and its step written as CallEnabled and CallStep.
SpecStagesFair ==
    /\ SpecStages
    /\ WF_vars(LoopStep)
    /\ ([]<>(~CallEnabled) \/ []<><<CallStep>>_vars)

\* The steps agree with the functions: the forest after the collapse steps
\* is the forest that removeWrappers returns, and the sequences after the
\* rounds are those that findAllSimilarSequences returns.
StepsAgree ==
    /\ pc = "cleaned" => rootNodes = removeWrappers(before)
    /\ pc = "scanned" => scan.sequences = findAllSimilarSequences(scan.nodes)

(***************************************************************************)
(* Properties of the wrapper remover (checked under SpecWrap).             *)
(***************************************************************************)
\* The forest that the first removeWrappers call of this run received.
Built == buildTree(snapshot)

\* C3: wrapper removal never loses a reference id: the ids carried by the
\* forest that removeWrappers returns are the ids of the forest it received,
\* also when a generic node that has an id is deleted or collapsed.
C3_RefsSurviveWrapperRemoval ==
    pc = "cleaned" => RefsOf(rootNodes) = RefsOf(before)

\* C5: after removeWrappers no reachable node is an empty generic (no child,
\* no inline text) and no reachable generic has exactly one child, at every
\* depth.
C5_NoUselessGenericLeft ==
    pc = "cleaned" =>
        \A n \in AllNodes(rootNodes) : ~isEmptyGeneric(n) /\ ~isUselessWrapper(n)

\* C5's case: the forest received holds a generic that is neither empty nor
\* single-child itself and becomes so only when its own children are
\* removed or collapsed, and removeWrappers has run.
C5_Witness ==
    /\ pc = "cleaned"
    /\ cleanCalls = 1
    /\ \E n \in AllNodes(before) :
          /\ n.type = "generic"
          /\ Len(n.children) >= 2
          /\ Len(removeEmptyGenerics(n.children)) <= 1
    /\ \E n \in AllNodes(before) :
          /\ n.type = "generic"
          /\ Len(n.children) = 1
          /\ n.children[1].type = "generic"
          /\ Len(n.children[1].children) >= 1

\* C6: wrapper removal is idempotent: removeWrappers applied to the forest it
\* returned gives that forest back, node for node (no node removed or
\* collapsed, no indent, inline text or child list changed).
C6_WrapperRemovalIdempotent ==
    cleanCalls = 2 => rootNodes = before

\* C6's case: the first call did change the forest, and the second call ran.
C6_Witness ==
    /\ cleanCalls = 2
    /\ rootNodes # Built
    /\ \E n \in AllNodes(Built) : isUselessWrapper(n)
    /\ \E n \in AllNodes(Built) : isEmptyGeneric(n)

RECURSIVE ChainLength(_)
\* The number of generic single-child nodes from node down to the first
\* node that is not one.
ChainLength(node) ==
    IF isUselessWrapper(node) THEN 1 + ChainLength(node.children[1]) ELSE 0

RECURSIVE ChainEnd(_)
ChainEnd(node) ==
    IF isUselessWrapper(node) THEN ChainEnd(node.children[1]) ELSE node

\* The forest is one chain of k >= 1 nested single-child generics that ends
\* in a node that is not generic.
IsChain(nodes) ==
    /\ Len(nodes) = 1
    /\ ChainLength(nodes[1]) >= 1
    /\ ChainEnd(nodes[1]).type # "generic"

\* C10: a chain of k >= 1 nested single-child generics ending in a
\* non-generic node X is replaced by the single node X, with X's own kind and
\* reference id and the indentation of the outermost generic.
C10_ChainCollapsesToItsEnd ==
    (pc = "cleaned" /\ cleanCalls = 1 /\ IsChain(before)) =>
        /\ Len(rootNodes) = 1
        /\ rootNodes[1].type = ChainEnd(before[1]).type
        /\ rootNodes[1].ref = ChainEnd(before[1]).ref
        /\ rootNodes[1].lineNumber = ChainEnd(before[1]).lineNumber
        /\ rootNodes[1].indent = before[1].indent

\* C10's case: a chain of three generics above a button that has an id and
\* that changes its indentation, after removeWrappers.
C10_Witness ==
    /\ pc = "cleaned"
    /\ cleanCalls = 1
    /\ IsChain(before)
    /\ ChainLength(before[1]) = 3
    /\ ChainEnd(before[1]).ref # NoRef
    /\ rootNodes[1].indent # ChainEnd(before[1]).indent

\* The source line numbers of a list of siblings, in order.
LineNumbers(nodes) == [k \in 1..Len(nodes) |-> nodes[k].lineNumber]

\* The line numbers of every node of a forest.
LinesOf(nodes) == {n.lineNumber : n \in AllNodes(nodes)}

\* The sequence s without the elements that are not in kept.
Keep(s, kept) == LET Test(x) == x \in kept IN SelectSeq(s, Test)

\* The forest after the first step of the removeWrappers call of this run.
Emptied == removeEmptyGenerics(before)

\* C11: empty-generic removal deletes exactly the generic nodes that have no
\* inline text and no child left: a deleted node is a generic without text
\* none of whose descendants is kept, and no kept node is an empty generic;
\* a kept node keeps its kind, id, text and indentation; every child list
\* and the root list are the list received without the deleted nodes, in
\* the order received.
C11_OnlyEmptyGenericsRemoved ==
    (pc = "cleaned" /\ cleanCalls = 1) =>
        /\ LinesOf(Emptied) \subseteq LinesOf(before)
        /\ LineNumbers(Emptied) = Keep(LineNumbers(before), LinesOf(Emptied))
        /\ \A n \in AllNodes(before) :
              IF n.lineNumber \in LinesOf(Emptied)
              THEN \E k \in AllNodes(Emptied) :
                      /\ k.lineNumber = n.lineNumber
                      /\ k.type = n.type /\ k.ref = n.ref
                      /\ k.content = n.content /\ k.indent = n.indent
                      /\ LineNumbers(k.children)
                            = Keep(LineNumbers(n.children), LinesOf(Emptied))
                      /\ ~isEmptyGeneric(k)
              ELSE /\ n.type = "generic"
                   /\ n.content = NoText
                   /\ LinesOf(n.children) \cap LinesOf(Emptied) = {}

\* C11's case: a generic whose only child is an empty generic stands between
\* two buttons in the root list and is deleted with its child, the buttons
\* become adjacent, a generic that has inline text and no child is in the
\* forest, and removeWrappers has run.
C11_Witness ==
    /\ pc = "cleaned"
    /\ cleanCalls = 1
    /\ \E i \in 2..Len(before) - 1 :
          /\ before[i].type = "generic"
          /\ Len(before[i].children) = 1
          /\ isEmptyGeneric(before[i].children[1])
          /\ before[i - 1].type = "button"
          /\ before[i + 1].type = "button"
          /\ \E j \in 1..Len(Emptied) - 1 :
                /\ Emptied[j] = before[i - 1]
                /\ Emptied[j + 1] = before[i + 1]
    /\ \E n \in AllNodes(before) :
          n.type = "generic" /\ Len(n.children) = 0 /\ n.content # NoText

\* The 0-based numbers of the lines of the text that parseLine makes a node
\* of.
ParsedLines ==
    {i - 1 : i \in {k \in 1..Len(snapshot) :
                       ~snapshot[k].blank /\ parseLine(snapshot[k], k - 1) # NoNode}}

\* The last source line of the subtree of node.
LastLine(node) ==
    CHOOSE l \in LinesOf(<<node>>) : \A x \in LinesOf(<<node>>) : x <= l

\* Every child is indented deeper than its parent, and the subtree of a node
\* is made of the lines of the forest from the node's own line to the
\* subtree's last line, with no line of another node in between.
WellNested(nodes) ==
    \A n \in AllNodes(nodes) :
        /\ \A k \in 1..Len(n.children) : n.children[k].indent > n.indent
        /\ LinesOf(<<n>>)
              = {l \in LinesOf(nodes) : n.lineNumber <= l /\ l <= LastLine(n)}

\* C12: in the forest that buildTree returns, which holds a node for every
\* parsed line, and in the forest that removeWrappers returns, every child
\* is indented strictly deeper than its parent and every subtree comes from
\* one contiguous block of the parsed lines (of those whose node is left).
C12_ChildrenDeeperSubtreesContiguous ==
    /\ pc = "built" => LinesOf(rootNodes) = ParsedLines
    /\ pc \in {"built", "cleaned"} =>
          /\ WellNested(rootNodes)
          /\ LinesOf(rootNodes) \subseteq ParsedLines

\* C12's case: removeWrappers has returned a forest in which a node that has
\* children of its own stands at the indentation of the wrapper it replaced,
\* below a parent that is left.
C12_Witness ==
    /\ pc = "cleaned"
    /\ cleanCalls = 1
    /\ \E n \in AllNodes(rootNodes), b \in AllNodes(before) :
          /\ Len(n.children) >= 1
          /\ \E k \in 1..Len(n.children) :
                /\ Len(n.children[k].children) >= 2
                /\ b.lineNumber = n.children[k].lineNumber
                /\ b.indent > n.children[k].indent

(***************************************************************************)
(* Properties of buildTree (checked under SpecLines).                      *)
(***************************************************************************)
\* The text without its blank lines and without the lines that parseLine
\* rejects.
WithoutDropped(lines) ==
    LET Parsed(line) == ~line.blank /\ parseLine(line, 0) # NoNode
    IN SelectSeq(lines, Parsed)

RECURSIVE Unnumbered(_)
\* A forest without its line numbers.
Unnumbered(nodes) ==
    [k \in 1..Len(nodes) |->
        [nodes[k] EXCEPT !.lineNumber = 0, !.children = Unnumbered(@)]]

\* C17: a blank line and a line without "- <type>" make no node, and the
\* forest of a text is, up to line numbers, the forest of the text without
\* these lines: no node has another parent because of them.
C17_DroppedLinesChangeNothing ==
    pc = "built" =>
        /\ LinesOf(rootNodes) = ParsedLines
        /\ Len(Flatten(rootNodes)) = Cardinality(ParsedLines)
        /\ Unnumbered(rootNodes) = Unnumbered(buildTree(WithoutDropped(snapshot)))

\* C17's case: a line without "- <type>", at indentation 0, stands between a
\* node and the deeper node that becomes its child, a blank line stands in
\* the text as well, and buildTree has returned.
C17_Witness ==
    /\ pc = "built"
    /\ \E i \in 1..(Len(snapshot) - 2) :
          /\ snapshot[i].dash /\ snapshot[i].indent = 0
          /\ ~snapshot[i + 1].dash /\ ~snapshot[i + 1].blank
          /\ snapshot[i + 2].dash /\ snapshot[i + 2].indent = 1
          /\ \E n \in AllNodes(rootNodes) :
                /\ n.lineNumber = i - 1
                /\ Len(n.children) = 1
                /\ n.children[1].lineNumber = i + 1
    /\ \E i \in 1..Len(snapshot) : snapshot[i].blank

\* The node (its number in st.nodes) whose child list holds node k, 0 when
\* no child list holds it.
ParentOf(st, k) ==
    LET holds == {p \in 1..Len(st.kids) : \E i \in 1..Len(st.kids[p]) : st.kids[p][i] = k}
    IN IF holds = {} THEN 0 ELSE CHOOSE p \in holds : TRUE

\* The nearest node before node k whose indentation is smaller than k's, 0
\* when there is none.
NearestShallower(st, k) ==
    LET before_k == {j \in 1..(k - 1) : st.nodes[j].indent < st.nodes[k].indent}
    IN IF before_k = {} THEN 0 ELSE CHOOSE j \in before_k : \A x \in before_k : x <= j

RECURSIVE PathTo(_, _)
\* The ancestors of node k, outermost first, then k.
PathTo(st, k) == IF k = 0 THEN << >> ELSE PathTo(st, ParentOf(st, k)) \o <<k>>

Increasing(s) == \A i \in 1..(Len(s) - 1) : s[i] < s[i + 1]

\* C18: while buildTree runs and when it returns, every node is a child of
\* the nearest node before it whose indentation is strictly smaller, and a
\* root when there is none; the node made last is the last of its list;
\* every child list and the root list are in line order; the stack is the
\* chain of ancestors of the node pushed last, then that node, with
\* strictly increasing indentation from bottom to top.
C18_AttachRuleAndStack ==
    pc \in {"building", "built"} =>
        /\ \A k \in 1..Len(building.nodes) :
              /\ ParentOf(building, k) = NearestShallower(building, k)
              /\ ParentOf(building, k) = 0
                    <=> \E i \in 1..Len(building.rootNodes) : building.rootNodes[i] = k
        /\ \A k \in 1..(Len(building.nodes) - 1) :
              building.nodes[k].lineNumber < building.nodes[k + 1].lineNumber
        /\ Len(building.nodes) > 0 =>
              LET list == IF ParentOf(building, Len(building.nodes)) = 0
                          THEN building.rootNodes
                          ELSE building.kids[ParentOf(building, Len(building.nodes))]
              IN list[Len(list)] = Len(building.nodes)
        /\ Increasing(building.rootNodes)
        /\ \A p \in 1..Len(building.kids) : Increasing(building.kids[p])
        /\ building.stack = PathTo(building, Len(building.nodes))
        /\ \A i \in 1..(Len(building.stack) - 1) :
              building.nodes[building.stack[i]].indent
                 < building.nodes[building.stack[i + 1]].indent

\* C18's case: the loop is under way; the stack holds three nodes, the
\* bottom one has two children, and a node was popped before the last push.
C18_Witness ==
    /\ pc = "building"
    /\ nextLine <= Len(snapshot)
    /\ Len(building.stack) = 3
    /\ Len(building.kids[building.stack[1]]) = 2
    /\ Len(building.nodes) = 4

(***************************************************************************)
(* Properties of list detection.                                           *)
(***************************************************************************)
\* Positions a..b of the siblings are a maximal run of listitem nodes.
IsListitemRun(nodes, a, b) ==
    /\ a <= b
    /\ \A k \in a..b : nodes[k].type = "listitem"
    /\ a > 1 => nodes[a - 1].type # "listitem"
    /\ b < Len(nodes) => nodes[b + 1].type # "listitem"

\* C19: for every sibling list given to detectLists, every maximal run of 3
\* or more listitem nodes has a semantic pattern within it, and when the
\* run has no similar sub-run the pattern is the whole run; also for a run
\* that reaches the last sibling.
C19_EveryListitemRunYieldsPattern ==
    pc = "done" =>
        \A c \in 1..Len(detected) :
            \A a, b \in 1..Len(detected[c].nodes) :
                (IsListitemRun(detected[c].nodes, a, b) /\ b - a + 1 >= 3) =>
                    \E k \in 1..Len(detected[c].lists) :
                        /\ detected[c].lists[k].type = "semantic"
                        /\ a <= detected[c].lists[k].start
                        /\ detected[c].lists[k].end <= b
                        /\ findStructurallySimilar(SubSeq(detected[c].nodes, a, b)) = NoSeq
                              => /\ detected[c].lists[k].start = a
                                 /\ detected[c].lists[k].end = b
                                 /\ detected[c].lists[k].count = b - a + 1

\* Every node of the sequence is within the similarity threshold of the
\* first one.
AllNearFirst(nodes) ==
    \A k \in 1..Len(nodes) :
        hammingDistance(computeHash(nodes[1]), computeHash(nodes[k])) <= 3

\* C20: every item of the run that findSimilarSequence finds among the
\* siblings given to detectLists, and every item of a structural pattern,
\* has a signature within Hamming distance 3 of the signature of the run's
\* first item.
C20_RunItemsNearBase ==
    pc = "done" =>
        \A c \in 1..Len(detected) :
            /\ findSimilarSequence(detected[c].nodes) # NoSeq
                  => AllNearFirst(findSimilarSequence(detected[c].nodes).samples)
            /\ \A k \in 1..Len(detected[c].lists) :
                  detected[c].lists[k].type = "structural"
                      => AllNearFirst(detected[c].lists[k].items)

\* The items of a pattern, as a set.
ItemSet(list) == {list.items[k] : k \in 1..Len(list.items)}

\* C21: the patterns returned by one call of detectLists are pairwise
\* disjoint: no sibling is an item of two of them.
C21_PatternsDisjoint ==
    pc = "done" =>
        \A c \in 1..Len(detected) :
            \A k1, k2 \in 1..Len(detected[c].lists) :
                k1 # k2 => ItemSet(detected[c].lists[k1])
                              \cap ItemSet(detected[c].lists[k2]) = {}

(***************************************************************************)
(* Properties of generate.                                                 *)
(***************************************************************************)
RECURSIVE OutputRefSeq(_)
\* The reference ids that the output text holds, in order, with repetition:
\* [ref=id] of a node line, then the ids of [refs: ...] of a fold line.
OutputRefSeq(lines) ==
    IF lines = << >> THEN << >>
    ELSE (IF lines[1].ref # NoRef THEN <<lines[1].ref>> ELSE << >>)
         \o lines[1].refs \o OutputRefSeq(Tail(lines))

OutputRefs(lines) == {OutputRefSeq(lines)[k] : k \in 1..Len(OutputRefSeq(lines))}

\* C1: every reference id of a node that is in the tree after wrapper removal
\* appears in the text returned by generate, inline on a node line or in the
\* list of a fold line; this includes the ids of folded members beyond the
\* first ones listed and the ids of descendants of folded members.
C1_EveryRefInOutput ==
    pc = "done" => RefsOf(rootNodes) \subseteq OutputRefs(outlineLines)

\* C2: when the ids of the input are pairwise distinct (they are: the id of a
\* line is its position), no id occurs more than once in the outline: not
\* inline and in a fold list, not in two fold lists, not on two node lines.
C2_NoRefTwice ==
    pc = "done" =>
        LET ids == OutputRefSeq(outlineLines)
        IN \A i, j \in 1..Len(ids) : ids[i] = ids[j] => i = j

\* Two siblings count as alike when their fingerprints are similar, or when
\* both have the role listitem.
Alike(a, b) ==
    \/ areSimilar(a, b)
    \/ a.type = "listitem" /\ b.type = "listitem"

AllLists == UNION { {c.lists[k] : k \in 1..Len(c.lists)} :
                      c \in {detected[i] : i \in 1..Len(detected)} }

FoldLines == {l \in {outlineLines[k] : k \in 1..Len(outlineLines)} : l.kind = "fold"}

\* C4: every ListPattern returned by detectLists has at least 3 items, every
\* fold line stands for at least 3 siblings (k >= 2 in "... and k more
\* similar"), and a run of 1 or 2 similar siblings is never folded: the run of
\* alike siblings that a pattern's sample begins has at least 3 members; the
\* siblings that are in no pattern are rendered on a line of their own.
C4_FoldMinimum ==
    pc = "done" =>
        /\ \A list \in AllLists :
              /\ Len(list.items) >= 3
              /\ list.count >= 3
              /\ \A k \in 1..3 : Alike(list.items[1], list.items[k])
        /\ \A l \in FoldLines : l.remaining >= 2
        /\ \A i \in 1..Len(detected) :
              \A k \in 1..Len(detected[i].nodes) :
                 detected[i].nodes[k] \notin ItemsOf(detected[i].lists) =>
                    \E o \in 1..Len(outlineLines) :
                       /\ outlineLines[o].kind = "node"
                       /\ outlineLines[o].src = detected[i].nodes[k].lineNumber

\* The number of lines of a text: the empty text has none.
NumberOfLines(text) == IF text = <<BlankLine>> THEN 0 ELSE Len(text)

\* C7: the header says r/o where r is the number of body lines that follow it
\* and o the number of lines of the input text.
C7_HeaderCounts ==
    pc = "done" =>
        /\ header.rendered = Len(outlineLines)
        /\ header.original = NumberOfLines(snapshot)

\* C8: generate on the empty text returns the header
\* "Page Outline (0/0 lines):" and no body line.
C8_EmptyInput ==
    (pc = "done" /\ snapshot = <<BlankLine>>) =>
        /\ header = [rendered |-> 0, original |-> 0]
        /\ outlineLines = << >>

RECURSIVE Structure(_)
RECURSIVE StructureAll(_)
\* A node without its inline text, reference id and line number, and its
\* descendants likewise.
Structure(node) ==
    [type |-> node.type, indent |-> node.indent,
     hasInteraction |-> node.hasInteraction,
     children |-> StructureAll(node.children)]
StructureAll(nodes) ==
    IF nodes = << >> THEN << >>
    ELSE <<Structure(nodes[1])>> \o StructureAll(Tail(nodes))

\* A sibling list of n >= 3 listitems that have the same structure and each a
\* reference id.
UniformList(nodes) ==
    /\ Len(nodes) >= 3
    /\ \A k \in 1..Len(nodes) :
          /\ nodes[k].type = "listitem"
          /\ nodes[k].ref # NoRef
          /\ Structure(nodes[k]) = Structure(nodes[1])

\* The fold lines of the output that were made from the node of that line.
FoldLinesOf(lineNumber) == {l \in FoldLines : l.src = lineNumber}

\* C9: for a sibling list of n >= 3 listitems that differ only in inline text
\* and reference id, detectLists returns exactly one pattern, semantic, whose
\* items are all n nodes; the renderer emits the first node's line and
\* exactly one fold line, "... and n-1 more similar", listing the ids of the
\* next min(5, n-1) items, with an ellipsis exactly when n-1 > 5.
C9_UniformListitemsFoldOnce ==
    (pc = "done" /\ UniformList(rootNodes)) =>
        LET n == Len(rootNodes) IN
        /\ detected[1].nodes = rootNodes
        /\ Len(detected[1].lists) = 1
        /\ detected[1].lists[1].type = "semantic"
        /\ detected[1].lists[1].items = rootNodes
        /\ outlineLines[1] = formatNode(rootNodes[1])
        /\ outlineLines[2].kind = "fold"
        /\ outlineLines[2].type = "listitem"
        /\ outlineLines[2].remaining = n - 1
        /\ outlineLines[2].refs = [k \in 1..Min(5, n - 1) |-> rootNodes[k + 1].ref]
        /\ outlineLines[2].more = (n - 1 > 5)
        /\ FoldLinesOf(rootNodes[1].lineNumber) = {outlineLines[2]}
        /\ \A o \in 3..Len(outlineLines) : outlineLines[o].kind = "node"

\* C9's case: seven listitems without children, not all with the same inline
\* text, have been folded, with an ellipsis after the five ids.
C9_Witness ==
    /\ pc = "done"
    /\ UniformList(rootNodes)
    /\ Len(rootNodes) = 7
    /\ rootNodes[1].content # rootNodes[2].content
    /\ outlineLines[2].more

(***************************************************************************)
(* Properties of the fold line (checked under SpecRefs).                   *)
(***************************************************************************)
\* C22: for every pattern of n items that detectLists returned, the fold
\* line of the pattern has the sample's indentation and kind, says n - 1
\* more, and lists in order the first min(5, number of ids) reference ids of
\* the items other than the sample, with ', ...' exactly when these items
\* carry more than 5 ids.
C22_FoldLineListsOtherItems ==
    pc = "done" =>
        \A c \in 1..Len(detected) :
            \A k \in 1..Len(detected[c].lists) :
                LET list == detected[c].lists[k]
                    ids == TruthyRefs(Tail(list.items))
                IN Len(list.items) > 1 =>
                     \E i \in 1..Len(outlineLines) :
                        /\ outlineLines[i].kind = "fold"
                        /\ outlineLines[i].src = list.sample.lineNumber
                        /\ outlineLines[i].indent = list.sample.indent
                        /\ outlineLines[i].type = list.sample.type
                        /\ outlineLines[i].remaining = Len(list.items) - 1
                        /\ outlineLines[i].refs = Slice(ids, MAX_REFS_IN_SUMMARY)
                        /\ outlineLines[i].more <=> Len(ids) > MAX_REFS_IN_SUMMARY

(***************************************************************************)
(* Properties of the order of the output lines.                            *)
(***************************************************************************)
\* The lineNumbers of the children of a node.
ChildLines(node) == {node.children[k].lineNumber : k \in 1..Len(node.children)}

\* C23: for every folded pattern the output holds the sample's line, then
\* at most 3 lines of children of the sample, then the fold line; no line of
\* a child of the sample stands after the fold line, and at most 3 lines of
\* children of the sample are in the output.
C23_SampleChildrenThenFold ==
    pc = "done" =>
        \A c \in 1..Len(detected) :
            \A k \in 1..Len(detected[c].lists) :
                LET sample == detected[c].lists[k].sample
                    OfChild(j) == /\ outlineLines[j].kind = "node"
                                  /\ outlineLines[j].src \in ChildLines(sample)
                IN detected[c].lists[k].count > 1 =>
                     \E s, i \in 1..Len(outlineLines) :
                        /\ s < i /\ i - s - 1 <= 3
                        /\ outlineLines[s] = formatNode(sample)
                        /\ outlineLines[i].kind = "fold"
                        /\ outlineLines[i].src = sample.lineNumber
                        /\ \A j \in (s + 1)..(i - 1) : OfChild(j)
                        /\ \A j \in (i + 1)..Len(outlineLines) : ~OfChild(j)

(***************************************************************************)
(* Properties of generateSmartOutline (checked under SpecBudget).          *)
(***************************************************************************)
\* structure.groups of the text that generate was called on.
GroupsOfText == detectRepetitiveGroups(Flatten(buildTree(snapshot)))

\* The output holds a line of a member of the group.
MemberShown(lines, group) ==
    \E j \in 1..Len(lines) : lines[j].kind = "node" /\ lines[j].src \in group.members

\* The output holds the fold line of the group.
FoldShown(lines, group) ==
    \E j \in 1..Len(lines) :
        /\ lines[j].kind = "fold"
        /\ lines[j].src = group.firstElement.lineNumber
        /\ lines[j].indent = group.indent
        /\ lines[j].type = group.type
        /\ lines[j].remaining = group.count - 1

\* C24: with a positive budget, every detected group is in the outline whole
\* or not at all: either no line of a member of the group and no fold line
\* of it is in the output, or the line of its first element and its fold
\* line both are, the first element's line before the fold line.
C24_GroupWholeOrAbsent ==
    (outcome # NoResult /\ request.mode = "smart" /\ request.maxLines > 0) =>
        \A k \in 1..Len(GroupsOfText) :
            \/ /\ ~MemberShown(outcome.lines, GroupsOfText[k])
               /\ ~FoldShown(outcome.lines, GroupsOfText[k])
            \/ /\ FoldShown(outcome.lines, GroupsOfText[k])
               /\ \E s, i \in 1..Len(outcome.lines) :
                     /\ s < i
                     /\ outcome.lines[s] = formatNodeAt(GroupsOfText[k].firstElement, 0)
                     /\ outcome.lines[i].kind = "fold"
                     /\ outcome.lines[i].src = GroupsOfText[k].firstElement.lineNumber

(***************************************************************************)
(* Properties of the cache of signatures (checked under SpecCalls).        *)
(***************************************************************************)
\* C25: when generate returns, hashCache holds no entry for a node of the
\* run that has just ended (the nodes of run number n have the keys
\* <<n, lineNumber>>), so that the cache does not grow with the calls.
C25_CacheHoldsNoNodeOfTheRun ==
    returned # << >> =>
        ~\E key \in DOMAIN hashCache : key[1] = Len(returned)

(***************************************************************************)
(* Properties of the loops (checked under SpecStages and SpecStagesFair).  *)
(***************************************************************************)
\* An iteration of the collapse loop leaves a node with fewer nodes below it.
CollapseProgress ==
    (pc = "unwrapping" /\ pc' = "unwrapping" /\ work'.iterations > work.iterations)
        => Len(Flatten(<<work'.node>>)) < Len(Flatten(<<work.node>>))

\* A window never starts again and the scan moves on: within one call of
\* findSimilarSequence i does not decrease, and a step that keeps i
\* increases j.
ScanProgress ==
    (pc = "scanning" /\ scan.phase \in {"window", "extend"}
        /\ scan'.phase \in {"window", "extend"})
        => \/ scan'.i > scan.i
           \/ scan'.i = scan.i /\ scan'.j > scan.j
           \/ scan'.i = scan.i /\ scan.phase = "window" /\ scan'.phase = "extend"

\* A round that does not stop marks at least 3 more siblings as processed.
RoundProgress ==
    (pc = "scanning" /\ scan.phase = "window" /\ scan'.phase = "round")
        => /\ scan.processed \subseteq scan'.processed
           /\ Cardinality(scan'.processed) >= Cardinality(scan.processed) + 3

\* C27: every stage terminates: each iteration of the collapse loop of
\* processNode makes the node smaller, the window scan of
\* findSimilarSequence moves on at every step, each round of
\* findAllSimilarSequences marks at least 3 more siblings or stops, and
\* generate returns its output.
C27_EveryStageTerminates ==
    /\ [][CollapseProgress /\ ScanProgress /\ RoundProgress]_vars
    /\ <>(pc = "done")

\* C27's case: generate has returned for a text in which the collapse loop
\* made an iteration and findAllSimilarSequences found a run in each of two
\* rounds and then stopped.
C27_Witness ==
    /\ pc = "done"
    /\ work.iterations >= 1
    /\ Len(scan.sequences) = 2
    /\ scan.rounds >= 2
    /\ Len(outlineLines) > 0

(***************************************************************************)
(* Properties of the visits of the structural pass (checked under          *)
(* SpecStages).                                                            *)
(***************************************************************************)
\* C28: over all rounds of findAllSimilarSequences together, each sibling is
\* the start of a window at most once and is consumed as a member of a
\* matched run at most once.
C28_EachSiblingVisitedAtMostTwice ==
    pc \in {"scanning", "scanned", "done"} =>
        \A k \in DOMAIN scan.starts :
            scan.starts[k] <= 1 /\ scan.consumed[k] <= 1

(***************************************************************************)
(* Properties of the patterns of detectLists (checked under SpecFlat).     *)
(***************************************************************************)
\* C29: every pattern returned by detectLists is consistent: count is the
\* number of its items, sample is its first item, refs are the reference ids
\* of its items in order, and none of its items is an item of an earlier
\* pattern of the call.
C29_PatternConsistent ==
    pc = "done" =>
        \A c \in 1..Len(detected) :
            \A k \in 1..Len(detected[c].lists) :
                /\ detected[c].lists[k].count = Len(detected[c].lists[k].items)
                /\ detected[c].lists[k].sample = detected[c].lists[k].items[1]
                /\ detected[c].lists[k].refs = TruthyRefs(detected[c].lists[k].items)
                /\ \A e \in 1..(k - 1) :
                      ItemSet(detected[c].lists[k])
                          \cap ItemSet(detected[c].lists[e]) = {}

(***************************************************************************)
(* Properties of the order of rendering (checked under SpecFlat).          *)
(***************************************************************************)
\* C30: the output is in document order: the line of a node, and the fold
\* line of the pattern it is the sample of, never come after a line that
\* stands for a node earlier in the text, also when some siblings belong to
\* a pattern and others do not.
C30_DocumentOrder ==
    pc = "done" =>
        \A p, q \in 1..Len(outlineLines) :
            p < q => outlineLines[p].src <= outlineLines[q].src

=============================================================================
